---- MODULE Spec2Model ----
(***************************************************************************)
(* OpenVCS: the VCS abstraction core.                                      *)
(*                                                                         *)
(* Several specifications over one set of variables:                       *)
(*   Spec        one repository handle of either provider (system git or   *)
(*               libgit2): commit, commit_index, identity, checkout,       *)
(*               fast-forward pull, backend switch;                        *)
(*   SpecRemote  one long operation of the libgit2 provider driven by the  *)
(*               library through the remote callbacks (credentials,        *)
(*               sideband, transfer progress, per-ref push status);        *)
(*   SpecLock    several threads sharing one libgit2 handle through        *)
(*               Git::with_repo;                                           *)
(*   SpecSession the application session: the current repository handle,   *)
(*               the snapshots commands take of it, the recents list and   *)
(*               the recents limit of the settings;                        *)
(*   SpecStatus  status_payload of either provider on one scanned entry;   *)
(*   SpecBranches git_list_branches over branches() and current_branch();  *)
(*   SpecLog     log_commits of either provider on one history and query;  *)
(*   SpecPatch   stage_patch and apply_reverse_patch of the system         *)
(*               provider on one file;                                     *)
(*   SpecEvents  one clone / fetch / push / pull_ff_only run twice against *)
(*               the same remote, process and library behaviour, with two  *)
(*               different on_event arguments;                             *)
(*   SpecStream  run_git_streaming of the system provider: the calling     *)
(*               thread, the stderr thread it spawns and the git process;  *)
(*   SpecSwitch  the session under concurrent set_current_repo calls;      *)
(*   SpecFf      Spec with a fast-forward that fails after the ref update; *)
(*   SpecOpen    startup reopen, add_repo and set_backend_cmd on the       *)
(*               session, with the backend registry;                       *)
(*   SpecCreate  the git_create_branch command on one repository;          *)
(*   SpecRw      the reader-writer locks of the session under concurrent   *)
(*               calls, and SpecRwFair, the same with every thread         *)
(*               scheduled again and again.                                *)
(***************************************************************************)
EXTENDS Integers, Sequences, FiniteSets, TLC

VARIABLES
    \* ---- repository handle (Spec) ----
    provider,     \* backend id of the open handle
    objs,         \* commit objects: objs[oid] = [parents, tree]
    refs,         \* refs/heads/<b> -> oid, NoOid when the branch is unborn
    head,         \* HEAD: [kind |-> "branch", name, oid] or [kind |-> "detached", ...]
    index,        \* the index (path -> content, 0 = absent)
    worktree,     \* the working tree
    localId,      \* repository-local user.name/user.email
    globalId,     \* global user.name/user.email
    remoteTip,    \* refs/heads/main of the remote "origin"
    tracking,     \* refs/remotes/origin/main
    last,         \* the last contract call: op, result, returned id, state before
    idSet,        \* set_identity_local has been called
    id0,          \* get_identity() when the handle was opened
    \* ---- one long operation of the libgit2 provider (SpecRemote) ----
    opKind,       \* "none" | "clone" | "fetch" | "push" | "pull"
    on,           \* the consumer passed Some(on_event) to the call
    phase,        \* "idle" | "connect" | "transfer" | "status" | "done"
    attempts,     \* the AtomicUsize of the credentials closure
    credLog,      \* one record per credentials invocation
    progress,     \* sideband and transfer callbacks so far
    events,       \* the VcsEvents the consumer's on_event received
    pushed,       \* per-ref push status reported by the remote
    opResult,     \* what the call returned: kind and error class
    \* ---- threads on one libgit2 handle (SpecLock) ----
    pc,           \* thread -> position
    op,           \* thread -> operation in progress
    lockHolder,   \* owner of the Mutex<Repository>, 0 when free
    poisoned,     \* the mutex is poisoned
    ret,          \* thread -> result of the last completed operation
    \* ---- the application session (SpecSession) ----
    current_repo, \* AppState.current_repo: a handle, NoHandle for None
    handles,      \* handle -> [st, wd, strong]: lifecycle, workdir, Arc strong count
    snap,         \* caller -> the Arc<Repo> clone it holds, NoHandle for none
    spc,          \* caller -> position inside its command
    spath,        \* caller -> the workdir its set_current_repo is recording
    recents,      \* AppState.recents, most recent first
    recents_limit,\* config.ux.recents_limit
    slimit,       \* caller -> the limit enforce_recents_limit_and_persist read
    touched,      \* a set_current_repo or a successful settings change completed
    \* ---- one entry of status_payload (SpecStatus) ----
    stIn,         \* what the scan reported: libgit2 status entry or porcelain v2 line
    stOut,        \* the FileEntry pushed for it, NoEntry before the call
    \* ---- git_list_branches (SpecBranches) ----
    brIn,         \* the repository the handle is open on: provider, refs, HEAD
    brOut,        \* what git_list_branches returned
    \* ---- log_commits (SpecLog) ----
    logIn,        \* provider, the commits in walk order, and the LogQuery
    logOut,       \* what log_commits returned
    \* ---- stage_patch / apply_reverse_patch on one file (SpecPatch) ----
    pt,           \* index and working-tree copy, the patch, the calls made so far
    \* ---- one long operation run with two different sinks (SpecEvents) ----
    evOp,         \* provider and kind of the operation
    runs,         \* "A", "B" -> the run of the operation with that run's on_event
    \* ---- run_git_streaming: the caller, the stderr thread, the child (SpecStream) ----
    stream,       \* pipes, positions of the two threads, events delivered so far
    \* ---- startup and the commands that open a repository (SpecOpen) ----
    appcfg,       \* the settings read at startup: git.backend, general.reopen_last_repos
    booted,       \* the setup hook (try_reopen_last_repo) has run
    lastCmd,      \* the last startup reopen / add_repo / set_backend_cmd and the session before it
    \* ---- git_create_branch on one repository (SpecCreate) ----
    cb,           \* provider, local branches, HEAD, branches a checkout cannot reach, last call
    \* ---- the reader-writer locks of the session (SpecRw, SpecRwFair) ----
    rw            \* thread positions, lock holders, calls left

repoVars   == <<provider, objs, refs, head, index, worktree, localId, globalId,
                remoteTip, tracking, last, idSet, id0>>
remoteVars == <<opKind, on, phase, attempts, credLog, progress, events, pushed,
                opResult>>
lockVars   == <<pc, op, lockHolder, poisoned, ret>>
sessVars   == <<current_repo, handles, snap, spc, spath, recents, recents_limit,
                slimit, touched>>
statusVars == <<stIn, stOut>>
branchVars == <<brIn, brOut>>
logVars    == <<logIn, logOut>>
patchVars  == <<pt>>
eventVars  == <<evOp, runs>>
streamVars == <<stream>>
openVars   == <<appcfg, booted, lastCmd>>
createVars == <<cb>>
rwVars     == <<rw>>
lateVars   == <<openVars, createVars, rwVars>>
moreVars   == <<streamVars, lateVars>>
auxVars    == <<sessVars, statusVars, branchVars, logVars, patchVars, eventVars,
                moreVars>>
vars       == <<repoVars, remoteVars, lockVars, auxVars>>

(***************************************************************************)
(* Bounds and fixed sets                                                   *)
(***************************************************************************)
MaxCommits  == 3      \* commit objects in the object database
MaxAttempts == 3      \* credentials callbacks in one operation
MaxProgress == 2      \* sideband / transfer callbacks in one operation
NumThreads  == 2      \* threads sharing one handle
MaxLog      == 3      \* commits reachable from the rev of a log query
MaxPage     == 2      \* largest skip and limit of a log query
MaxHunks    == 3      \* independent changes (hunks) a file can carry
MaxLines    == 2      \* lines the git process writes to one of its pipes
MaxHandles  == 3      \* repository handles opened in one session
MAX_RECENTS == 10     \* state.rs: fallback length of the recents list

Threads == 1..NumThreads

Providers  == {"git-system", "git-libgit2"}
Paths      == {"a"}
Contents   == {0, 1}                  \* 0: the file does not exist
Trees      == [Paths -> Contents]
EmptyTree  == [p \in Paths |-> 0]
NoOid      == 0
Branches   == {"main"}
RemoteShort == "origin/main"          \* short name of the remote-tracking branch
Idents     == {"A", "B"}              \* (name, email) pairs
NoIdent    == "none"
Callers    == {"c1", "c2"}            \* commands running at the same time
Workdirs   == {"w1", "w2", "w3"}
NoHandle   == 0
Handles    == 1..MaxHandles
NoPath     == "none"
LimitInputs == 0..3                   \* recents_limit values a settings file or change carries
PathSeqs   == {<<>>, <<"a">>}

(***************************************************************************)
(* Object graph helpers                                                    *)
(***************************************************************************)
SeqRange(s) == {s[i] : i \in 1..Len(s)}

RECURSIVE Ancestors(_)
\* every commit reachable from c, c included (parents are older objects)
Ancestors(c) ==
    IF c = NoOid THEN {}
    ELSE {c} \cup UNION {Ancestors(p) : p \in SeqRange(objs[c].parents)}

\* Reference::peel_to_commit / `git rev-parse HEAD`: NoOid when HEAD is unborn
HeadCommit ==
    IF head.kind = "detached" THEN head.oid ELSE refs[head.name]

TreeOf(c) == IF c = NoOid THEN EmptyTree ELSE objs[c].tree

BranchHead(b) == [kind |-> "branch", name |-> b, oid |-> NoOid]
DetachedHead(c) == [kind |-> "detached", name |-> "HEAD", oid |-> c]

\* what a call leaves in `last`
Pre == [hc |-> HeadCommit, head |-> head, refs |-> refs, wt |-> worktree,
        n |-> Len(objs), tip |-> tracking, fetched |-> FALSE, staged |-> TRUE]

Call(o, r, id, pre) == [op |-> o, res |-> r, oid |-> id, pre |-> pre]

(***************************************************************************)
(* Identity                                                                *)
(***************************************************************************)
\* `git config --get user.name` / repo.config(): local, then global
get_identity == IF localId # NoIdent THEN localId ELSE globalId


(***************************************************************************)
(* Error mapping at the contract surface                                   *)
(***************************************************************************)
\* GitLibGit2::map_err: every low-level GitError, whatever its kind, becomes
\* VcsError::Backend { backend: GIT_LIBGIT2_ID, msg }
map_err(e) == "Backend"

\* GitSystem::run_git / run_git_streaming: a non-zero exit is VcsError::Backend
run_git_failed == "Backend"

(***************************************************************************)
(* Staging                                                                 *)
(***************************************************************************)
RECURSIVE add_path_each(_, _, _)
\* Git::commit, the `for p in paths` loop: idx.add_path(rel) fails on a file
\* that is not on disk and the `?` returns at once, the paths staged so far
\* staying in the handle's index object
add_path_each(idx, wt, paths) ==
    IF paths = <<>> THEN [ok |-> TRUE, idx |-> idx]
    ELSE LET p == Head(paths) IN
         IF wt[p] = 0 THEN [ok |-> FALSE, idx |-> idx]
         ELSE add_path_each([idx EXCEPT ![p] = wt[p]], wt, Tail(paths))

\* Git::commit, staging: add_all("*") makes the index the working tree
Lg2_stage(idx, wt, paths) ==
    IF paths = <<>> THEN [ok |-> TRUE, idx |-> wt]
    ELSE add_path_each(idx, wt, paths)

\* GitSystem::commit, staging: `git add -A`, or `git add <paths>`, which
\* stages nothing and fails when a pathspec matches no file
Sys_stage(idx, wt, paths) ==
    IF paths = <<>> THEN [ok |-> TRUE, idx |-> wt]
    ELSE IF \E p \in SeqRange(paths) : wt[p] = 0 /\ idx[p] = 0
         THEN [ok |-> FALSE, idx |-> idx]
         ELSE [ok |-> TRUE,
               idx |-> [p \in Paths |-> IF p \in SeqRange(paths) THEN wt[p] ELSE idx[p]]]

(***************************************************************************)
(* commit                                                                  *)
(***************************************************************************)
\* Git::commit, "Parents: if HEAD is a branch, use its tip; otherwise initial
\* commit": repo.head() is Err on an unborn branch, and a detached HEAD is
\* not is_branch(), so both take the `_ => Vec::new()` arm
Lg2_parents ==
    IF head.kind = "branch" /\ refs[head.name] # NoOid
    THEN <<refs[head.name]>> ELSE <<>>

\* Git::commit, "Target ref when not an initial commit": None without parents
Lg2_head_ref(parents) ==
    IF parents = <<>> THEN "none" ELSE head.name

\* Git::commit: the NothingToCommit test is idx.is_empty()
Lg2_nothing_to_commit(idx) == idx = EmptyTree

\* `git commit`: exits 1 when the index is the tree of HEAD
Sys_nothing_to_commit(idx) == idx = TreeOf(HeadCommit)

\* GitLibGit2::commit -> ll::Git::commit
Lg2_commit(paths, who) ==
    LET st      == Lg2_stage(index, worktree, paths)
        parents == Lg2_parents
        href    == Lg2_head_ref(parents)
        oid     == Len(objs) + 1
    IN  /\ provider = "git-libgit2"
        /\ index' = st.idx
        /\ IF ~st.ok
           THEN /\ last' = Call("commit", map_err("LibGit2"), NoOid,
                                [Pre EXCEPT !.staged = FALSE])
                /\ UNCHANGED <<objs, refs>>
           ELSE IF Lg2_nothing_to_commit(st.idx)
           THEN /\ last' = Call("commit", map_err("NothingToCommit"), NoOid, Pre)
                /\ UNCHANGED <<objs, refs>>
           ELSE /\ Len(objs) < MaxCommits
                /\ objs' = Append(objs, [parents |-> parents, tree |-> st.idx])
                /\ refs' = IF href = "none" THEN refs
                           ELSE [refs EXCEPT ![href] = oid]
                /\ last' = Call("commit", "Ok", oid, Pre)
        /\ UNCHANGED <<provider, head, worktree, localId, globalId, remoteTip,
                       tracking, idSet, id0>>

\* `git commit -m <msg> --no-edit` then `git rev-parse HEAD`, on the index idx
Sys_git_commit(opname, idx, pre) ==
    LET hc  == HeadCommit
        oid == Len(objs) + 1
    IN  IF Sys_nothing_to_commit(idx)
        THEN /\ last' = Call(opname, run_git_failed, NoOid, pre)
             /\ UNCHANGED <<objs, refs, head>>
        ELSE /\ Len(objs) < MaxCommits
             /\ objs' = Append(objs, [parents |-> IF hc = NoOid THEN <<>> ELSE <<hc>>,
                                      tree |-> idx])
             /\ IF head.kind = "branch"
                THEN refs' = [refs EXCEPT ![head.name] = oid] /\ head' = head
                ELSE head' = DetachedHead(oid) /\ refs' = refs
             /\ last' = Call(opname, "Ok", oid, pre)

\* GitSystem::commit
Sys_commit(paths, who) ==
    LET st == Sys_stage(index, worktree, paths)
    IN  /\ provider = "git-system"
        /\ localId' = who                \* git config user.name / user.email
        /\ index' = st.idx
        /\ IF ~st.ok
           THEN /\ last' = Call("commit", run_git_failed, NoOid,
                                [Pre EXCEPT !.staged = FALSE])
                /\ UNCHANGED <<objs, refs, head>>
           ELSE Sys_git_commit("commit", st.idx, Pre)
        /\ UNCHANGED <<provider, worktree, globalId, remoteTip, tracking, idSet, id0>>

\* GitSystem::commit_index
Sys_commit_index(who) ==
    /\ provider = "git-system"
    /\ localId' = who
    /\ Sys_git_commit("commit_index", index, Pre)
    /\ UNCHANGED <<provider, index, worktree, globalId, remoteTip, tracking, idSet, id0>>

\* GitSystem::set_identity_local
set_identity_local(who) ==
    /\ provider = "git-system"
    /\ localId' = who
    /\ idSet' = TRUE
    /\ last' = Call("set_identity_local", "Ok", NoOid, Pre)
    /\ UNCHANGED <<provider, objs, refs, head, index, worktree, globalId,
                   remoteTip, tracking, id0>>


(***************************************************************************)
(* checkout                                                                *)
(***************************************************************************)
\* `git checkout` / `git merge --ff-only` from tree `old` to tree `new`, the
\* two-way merge of read-tree: a path that differs between the trees is left
\* alone when the index already has the new content, is updated when the
\* index has the old content and the file on disk is unmodified or missing,
\* and makes the command fail otherwise (local changes or an untracked file
\* would be overwritten)
TwoWayOk(old, new) ==
    \A p \in Paths : old[p] # new[p] =>
        \/ index[p] = new[p]
        \/ index[p] = old[p] /\ worktree[p] \in {index[p], 0}

TwoWayIndex(old, new) ==
    [p \in Paths |-> IF old[p] # new[p] THEN new[p] ELSE index[p]]

TwoWayWorktree(old, new) ==
    [p \in Paths |-> IF old[p] # new[p] /\ index[p] = old[p]
                     THEN new[p] ELSE worktree[p]]

\* libgit2's checkout_tree with the default, safe strategy: refuses when a
\* path that differs between the two trees is modified in the index or on disk
CheckoutSafeOk(old, new) ==
    \A p \in Paths : old[p] # new[p] => (index[p] = old[p] /\ worktree[p] = old[p])

CheckoutSafe(old, new, cur) ==
    [p \in Paths |-> IF old[p] # new[p] THEN new[p] ELSE cur[p]]

\* GitLibGit2::checkout_branch -> ll::Git::checkout_branch
Lg2_checkout_branch(name) ==
    /\ provider = "git-libgit2"
    /\ IF name \notin Branches \/ refs[name] = NoOid
       THEN \* revparse_ext("refs/heads/{name}") fails
            /\ last' = Call("checkout_branch", map_err("NoSuchBranch"), NoOid, Pre)
            /\ UNCHANGED <<head, index, worktree>>
       ELSE IF ~CheckoutSafeOk(TreeOf(HeadCommit), TreeOf(refs[name]))
       THEN \* checkout_tree reports a conflict
            /\ last' = Call("checkout_branch", map_err("LibGit2"), NoOid, Pre)
            /\ UNCHANGED <<head, index, worktree>>
       ELSE /\ index' = CheckoutSafe(TreeOf(HeadCommit), TreeOf(refs[name]), index)
            /\ worktree' = CheckoutSafe(TreeOf(HeadCommit), TreeOf(refs[name]), worktree)
            /\ head' = BranchHead(name)
            /\ last' = Call("checkout_branch", "Ok", NoOid, Pre)
    /\ UNCHANGED <<provider, objs, refs, localId, globalId, remoteTip, tracking,
                   idSet, id0>>

\* what `git checkout <name>` resolves name to: a local branch, the
\* remote-tracking branch (HEAD is then detached at its tip), or nothing
Sys_checkout_target(name) ==
    IF name \in Branches /\ refs[name] # NoOid THEN refs[name]
    ELSE IF name = RemoteShort THEN tracking
    ELSE NoOid

\* GitSystem::checkout_branch: `git checkout <name>`
Sys_checkout_branch(name) ==
    LET target == Sys_checkout_target(name) IN
    /\ provider = "git-system"
    /\ IF target = NoOid \/ ~TwoWayOk(TreeOf(HeadCommit), TreeOf(target))
       THEN /\ last' = Call("checkout_branch", run_git_failed, NoOid, Pre)
            /\ UNCHANGED <<head, index, worktree>>
       ELSE /\ index' = TwoWayIndex(TreeOf(HeadCommit), TreeOf(target))
            /\ worktree' = TwoWayWorktree(TreeOf(HeadCommit), TreeOf(target))
            /\ head' = IF name \in Branches THEN BranchHead(name)
                       ELSE DetachedHead(target)
            /\ last' = Call("checkout_branch", "Ok", NoOid, Pre)
    /\ UNCHANGED <<provider, objs, refs, localId, globalId, remoteTip, tracking,
                   idSet, id0>>

(***************************************************************************)
(* pull_ff_only                                                            *)
(***************************************************************************)
\* a merge analysis that looks at identity only, never at ancestry
merge_analysis_no_ancestry(their) ==
    IF HeadCommit = NoOid THEN "unborn_fast_forward"
    ELSE IF their = HeadCommit THEN "up_to_date"
    ELSE "fast_forward"

\* Repository::merge_analysis of HEAD against the commit `their`
merge_analysis(their) ==
    IF HeadCommit = NoOid THEN "unborn_fast_forward"
    ELSE IF their \in Ancestors(HeadCommit) THEN "up_to_date"
    ELSE IF HeadCommit \in Ancestors(their) THEN "fast_forward"
    ELSE "normal"

\* `reference.set_target(target, ..)` on the ref HEAD names: the branch, or
\* HEAD itself when detached
set_target(target) ==
    IF head.kind = "branch"
    THEN refs' = [refs EXCEPT ![head.name] = target] /\ head' = head
    ELSE head' = DetachedHead(target) /\ refs' = refs

\* ll::Git::fast_forward("origin/main"); `net`: the fetch succeeds
Lg2_fast_forward(net) ==
    LET tip == IF net THEN remoteTip ELSE tracking
        pre == [Pre EXCEPT !.tip = tip, !.fetched = net]
    IN
    /\ provider = "git-libgit2"
    /\ tracking' = tip
    /\ UNCHANGED <<index, worktree>>  \* checkout_head(None): safe, against the moved HEAD
    /\ IF ~net \/ tip = NoOid
       THEN \* r.fetch / find_reference(refs/remotes/origin/main) fails
            /\ last' = Call("pull_ff_only", "LibGit2", NoOid, pre)
            /\ UNCHANGED <<refs, head>>
       ELSE CASE merge_analysis(tip) = "up_to_date" ->
                   /\ last' = Call("pull_ff_only", "Ok", NoOid, pre)
                   /\ UNCHANGED <<refs, head>>
              [] merge_analysis(tip) = "unborn_fast_forward" ->
                   \* is_fast_forward(), then repo.head() is Err(UnbornBranch)
                   /\ last' = Call("pull_ff_only", "LibGit2", NoOid, pre)
                   /\ UNCHANGED <<refs, head>>
              [] merge_analysis(tip) = "fast_forward" ->
                   \* set_target, set_head, checkout_head
                   /\ set_target(tip)
                   /\ last' = Call("pull_ff_only", "Ok", NoOid, pre)
              [] OTHER ->
                   /\ last' = Call("pull_ff_only", "NonFastForward", NoOid, pre)
                   /\ UNCHANGED <<refs, head>>
    /\ UNCHANGED <<provider, objs, localId, globalId, remoteTip, idSet, id0>>

\* GitSystem::pull_ff_only: `git pull --ff-only --no-rebase origin main`
Sys_pull_ff_only(net) ==
    LET tip == IF net THEN remoteTip ELSE tracking
        pre == [Pre EXCEPT !.tip = tip, !.fetched = net]
        hc  == HeadCommit
    IN
    /\ provider = "git-system"
    /\ tracking' = tip
    /\ IF ~net \/ tip = NoOid
       THEN /\ last' = Call("pull_ff_only", run_git_failed, NoOid, pre)
            /\ UNCHANGED <<refs, head, index, worktree>>
       ELSE IF hc # NoOid /\ tip \in Ancestors(hc)
       THEN \* "Already up to date."
            /\ last' = Call("pull_ff_only", "Ok", NoOid, pre)
            /\ UNCHANGED <<refs, head, index, worktree>>
       ELSE IF (IF hc = NoOid THEN index = EmptyTree ELSE hc \in Ancestors(tip))
               /\ TwoWayOk(TreeOf(hc), TreeOf(tip))
       THEN /\ set_target(tip)
            /\ index' = TwoWayIndex(TreeOf(hc), TreeOf(tip))
            /\ worktree' = TwoWayWorktree(TreeOf(hc), TreeOf(tip))
            /\ last' = Call("pull_ff_only", "Ok", NoOid, pre)
       ELSE \* not possible to fast-forward, an unborn branch with staged
            \* changes, or local changes in the way
            /\ last' = Call("pull_ff_only", run_git_failed, NoOid, pre)
            /\ UNCHANGED <<refs, head, index, worktree>>
    /\ UNCHANGED <<provider, objs, localId, globalId, remoteTip, idSet, id0>>

(***************************************************************************)
(* The world around the handle                                             *)
(***************************************************************************)
NoCall == Call("none", "Ok", NoOid, Pre)

\* the user edits, creates or deletes a file of the working tree
EditWorktree(p, c) ==
    /\ worktree[p] # c
    /\ worktree' = [worktree EXCEPT ![p] = c]
    /\ last' = [NoCall EXCEPT !.pre.wt = worktree']
    /\ UNCHANGED <<provider, objs, refs, head, index, localId, globalId,
                   remoteTip, tracking, idSet, id0>>

\* the tree of the next commit pushed to origin: file "a" rewritten
RemoteTree ==
    [TreeOf(remoteTip) EXCEPT !["a"] = IF @ = 1 THEN 0 ELSE 1]

\* somebody else pushes a commit to origin's main
RemoteAdvance(t) ==
    /\ Len(objs) < MaxCommits
    /\ objs' = Append(objs, [parents |-> IF remoteTip = NoOid THEN <<>> ELSE <<remoteTip>>,
                             tree |-> t])
    /\ remoteTip' = Len(objs) + 1
    /\ last' = [NoCall EXCEPT !.pre.n = Len(objs')]
    /\ UNCHANGED <<provider, refs, head, index, worktree, localId, globalId,
                   tracking, idSet, id0>>

\* set_backend_cmd: the open repository is reopened with the other backend
set_backend_cmd(b) ==
    /\ b # provider
    /\ provider' = b
    /\ last' = NoCall
    /\ UNCHANGED <<objs, refs, head, index, worktree, localId, globalId,
                   remoteTip, tracking, idSet, id0>>

(***************************************************************************)
(* Spec: one repository handle                                             *)
(***************************************************************************)
NoResult == [kind |-> "none", class |-> "none"]

RemoteIdle ==
    /\ opKind = "none" /\ on = FALSE /\ phase = "idle" /\ attempts = 0
    /\ credLog = <<>> /\ progress = 0 /\ events = <<>> /\ pushed = <<>>
    /\ opResult = NoResult

LockIdle ==
    /\ pc = [t \in Threads |-> "idle"]
    /\ op = [t \in Threads |-> "none"]
    /\ lockHolder = 0
    /\ poisoned = FALSE
    /\ ret = [t \in Threads |-> "none"]

SessIdle ==
    /\ current_repo = NoHandle
    /\ handles = [h \in Handles |-> [st |-> "Fresh", wd |-> NoPath, strong |-> 0]]
    /\ snap = [t \in Callers |-> NoHandle]
    /\ spc = [t \in Callers |-> "idle"]
    /\ spath = [t \in Callers |-> NoPath]
    /\ recents = <<>>
    /\ recents_limit = MAX_RECENTS
    /\ slimit = [t \in Callers |-> 0]
    /\ touched = FALSE

NoEntry == [path |-> "", status |-> "none"]

StatusIdle == stIn = [prov |-> "none"] /\ stOut = NoEntry

NoList == [res |-> "none", items |-> <<>>]

BranchIdle == brIn = [prov |-> "none"] /\ brOut = NoList

LogIdle == logIn = [prov |-> "none"] /\ logOut = NoList

PatchIdle == pt = [phase |-> "none"]

EventsIdle == evOp = [prov |-> "none"] /\ runs = <<>>

StreamIdle == stream = [mainpc |-> "none"]

NoCfg == [git_backend |-> "none", reopen_last_repos |-> FALSE]

NoCmd == [op |-> "none"]

OpenIdle == appcfg = NoCfg /\ booted = FALSE /\ lastCmd = NoCmd

CreateIdle == cb = [op |-> "none"]

RwIdle == rw = [calls |-> 0]

LateIdle == OpenIdle /\ CreateIdle /\ RwIdle

MoreIdle == StreamIdle /\ LateIdle

AuxIdle ==
    /\ SessIdle /\ StatusIdle /\ BranchIdle /\ LogIdle /\ PatchIdle /\ EventsIdle
    /\ MoreIdle

RepoInit ==
    /\ provider \in Providers
    /\ objs = <<>>
    /\ refs = [b \in Branches |-> NoOid]
    /\ head = BranchHead("main")
    /\ index = EmptyTree
    /\ worktree = EmptyTree
    /\ localId \in {NoIdent, "A"}
    /\ globalId = "A"
    /\ remoteTip = NoOid
    /\ tracking = NoOid
    /\ last = [op |-> "none", res |-> "Ok", oid |-> NoOid,
               pre |-> [hc |-> NoOid, head |-> BranchHead("main"),
                        refs |-> [b \in Branches |-> NoOid], wt |-> EmptyTree,
                        n |-> 0, tip |-> NoOid, fetched |-> FALSE,
                        staged |-> TRUE]]
    /\ idSet = FALSE
    /\ id0 = IF localId # NoIdent THEN localId ELSE globalId

Init == RepoInit /\ RemoteIdle /\ LockIdle /\ AuxIdle

Commit == \E paths \in PathSeqs, who \in Idents :
              Lg2_commit(paths, who) \/ Sys_commit(paths, who)
CommitIndex == \E who \in Idents : Sys_commit_index(who)
SetIdentityLocal == \E who \in Idents : set_identity_local(who)
CheckoutBranch == \E name \in Branches \cup {RemoteShort} :
              Lg2_checkout_branch(name) \/ Sys_checkout_branch(name)
PullFfOnly == \E net \in BOOLEAN :
              Lg2_fast_forward(net) \/ Sys_pull_ff_only(net)
Edit == \E p \in Paths, c \in Contents : EditWorktree(p, c)
RemotePush == RemoteAdvance(RemoteTree)
SetBackend == \E b \in Providers : set_backend_cmd(b)

RepoNext ==
    \/ Commit
    \/ CommitIndex
    \/ SetIdentityLocal
    \/ CheckoutBranch
    \/ PullFfOnly
    \/ Edit
    \/ RemotePush
    \/ SetBackend

Next == RepoNext /\ UNCHANGED <<remoteVars, lockVars, auxVars>>

Spec == Init /\ [][Next]_vars

(***************************************************************************)
(* Properties of Spec                                                      *)
(***************************************************************************)
CommitOk == last.op = "commit" /\ last.res = "Ok"

\* C1: whenever commit returns Ok(id), HEAD resolves to id afterwards, the
\* initial commit on an unborn branch included
C1_HeadResolvesToCommitId ==
    CommitOk => HeadCommit = last.oid

\* C2: the parents of the commit a successful commit created are exactly
\* [the commit HEAD resolved to before the call] when HEAD resolved to a
\* commit (on a branch or detached), and empty only on an unborn branch
C2_ParentsAreHeadBefore ==
    CommitOk =>
        objs[last.oid].parents =
            IF last.pre.hc = NoOid THEN <<>> ELSE <<last.pre.hc>>

\* C3: commit whose index after staging is the tree of HEAD returns the kind
\* NothingToCommit, creates no commit and leaves HEAD unchanged
C3_NothingToCommit ==
    (/\ last.op = "commit" /\ last.pre.staged
     /\ last.pre.hc # NoOid /\ index = TreeOf(last.pre.hc)) =>
        /\ last.res = "NothingToCommit"
        /\ Len(objs) = last.pre.n
        /\ HeadCommit = last.pre.hc /\ head = last.pre.head

\* C4: as long as set_identity_local has not been called, get_identity()
\* returns what it returned when the handle was opened
C4_IdentityUnchanged ==
    ~idSet => get_identity = id0

PullCall == last.op = "pull_ff_only" /\ last.pre.hc # NoOid
ProperDescendant == last.pre.hc \in Ancestors(last.pre.tip) /\ last.pre.tip # last.pre.hc
TipBehind == last.pre.tip \in Ancestors(last.pre.hc)
FrameUnchanged == refs = last.pre.refs /\ head = last.pre.head /\ worktree = last.pre.wt

\* C5 as stated: after pull_ff_only with HEAD on a commit and the fetch done,
\* the current ref is at the tracking tip if and only if the tip is a proper
\* descendant of HEAD before; a tip that is HEAD or an ancestor of HEAD gives
\* success with branch ref, HEAD and working tree unchanged
C5_MovesIffProperDescendant ==
    (PullCall /\ last.pre.fetched) =>
        /\ (HeadCommit # last.pre.hc /\ HeadCommit = last.pre.tip) <=> ProperDescendant
        /\ TipBehind => (last.res = "Ok" /\ FrameUnchanged)

\* C5 amended: pull_ff_only moves the current ref only to the tracking tip and
\* only when the tip is a proper descendant of HEAD before; when it returns
\* Ok the ref is at the tip if the tip was a proper descendant; a tip that is
\* HEAD or an ancestor of HEAD leaves branch ref, HEAD and working tree
\* unchanged, and gives success when the fetch succeeded
C5_FastForwardOnSuccess ==
    PullCall =>
        /\ HeadCommit # last.pre.hc => (HeadCommit = last.pre.tip /\ ProperDescendant)
        /\ (last.res = "Ok" /\ ProperDescendant) => HeadCommit = last.pre.tip
        /\ last.res = "Ok" => (ProperDescendant \/ TipBehind)
        /\ TipBehind => FrameUnchanged
        /\ (TipBehind /\ last.pre.fetched) => last.res = "Ok"
        /\ head.kind = last.pre.head.kind

\* the libgit2 provider fast-forwarded the current branch to the tracking tip
C5_Witness ==
    /\ PullCall /\ last.res = "Ok" /\ ProperDescendant
    /\ HeadCommit = last.pre.tip /\ head.kind = "branch"
    /\ provider = "git-libgit2"

Diverged ==
    /\ last.pre.tip # NoOid
    /\ last.pre.tip \notin Ancestors(last.pre.hc)
    /\ last.pre.hc \notin Ancestors(last.pre.tip)

\* C6: pull_ff_only with a tracking tip that diverged from HEAD returns the
\* kind NonFastForward, and the branch ref and HEAD are unchanged
C6_DivergedIsNonFastForward ==
    (PullCall /\ last.pre.fetched /\ Diverged) =>
        /\ last.res = "NonFastForward"
        /\ refs = last.pre.refs /\ head = last.pre.head

(***************************************************************************)
(* SpecRemote: one long operation of the libgit2 provider                  *)
(***************************************************************************)
OpKinds    == {"clone", "fetch", "push", "pull"}
CredTypes  == {"USERNAME", "SSH_KEY", "USER_PASS_PLAINTEXT"}
AllowedSets == {{"USERNAME"}, {"SSH_KEY"}, {"SSH_KEY", "USER_PASS_PLAINTEXT"}}
PushRefs   == {"refs/heads/main", "refs/heads/dev"}
NoStatus   == "none"                  \* Option::None of the status
Statuses   == {NoStatus, "rejected"}

\* the strings the callbacks hand to the progress closure
Msg(prefix, ref, status) == [prefix |-> prefix, ref |-> ref, status |-> status]

\* GitLibGit2::adapt_progress: the VcsEvent a progress string becomes
adapt_progress(m) ==
    IF m.prefix = "remote: "
    THEN [type |-> "RemoteMessage", ref |-> "", status |-> NoStatus]
    ELSE IF m.prefix = "auth:"
    THEN [type |-> "Auth", ref |-> "", status |-> NoStatus]
    ELSE IF m.prefix = "push status: "
    THEN [type |-> "PushStatus", ref |-> m.ref, status |-> m.status]
    ELSE [type |-> "Progress", ref |-> "", status |-> NoStatus]

\* the closure the callbacks were built with reaches the consumer's on_event:
\* fetch and push pass adapt_progress(on); Git::clone and Git::fast_forward
\* build their callbacks with make_remote_callbacks(), the closure |_| {}
Sink == on /\ opKind \in {"fetch", "push"}

\* (on)(msg)
emit(evs, m) == IF Sink THEN Append(evs, adapt_progress(m)) ELSE evs

\* a credentials closure that offers the agent on every call
any_attempt(n) == TRUE

\* credentials closure: `if n == 1`
first_attempt(n) == n = 1

\* the entry point of clone / fetch / push / pull_ff_only: new callbacks, a
\* new attempts counter
StartOp(kind, sink) ==
    /\ phase \in {"idle", "done"}
    /\ opKind' = kind
    /\ on' = sink
    /\ phase' = "connect"
    /\ attempts' = 0
    /\ credLog' = <<>>
    /\ progress' = 0
    /\ events' = <<>>
    /\ pushed' = <<>>
    /\ opResult' = NoResult

\* cb.credentials(|_url, username_from_url, allowed| ..); `agent`: the SSH
\* agent answers Cred::ssh_key_from_agent
credentials(allowed, agent) ==
    LET n  == attempts + 1
        e1 == emit(events, Msg("auth:", "", NoStatus))
    IN  /\ phase = "connect"
        /\ attempts < MaxAttempts
        /\ attempts' = n
        /\ IF "SSH_KEY" \in allowed
           THEN IF first_attempt(n)
                THEN /\ events' = emit(e1, Msg("auth:", "", NoStatus))
                     /\ credLog' = Append(credLog,
                            [n |-> n, ssh |-> TRUE, agent |-> TRUE,
                             ret |-> IF agent THEN "cred" ELSE "agent_err"])
                ELSE /\ events' = e1
                     /\ credLog' = Append(credLog,
                            [n |-> n, ssh |-> TRUE, agent |-> FALSE, ret |-> "auth_err"])
           ELSE /\ agent
                /\ events' = e1
                /\ credLog' = Append(credLog,
                       [n |-> n, ssh |-> FALSE, agent |-> FALSE, ret |-> "auth_err"])
        /\ UNCHANGED <<opKind, on, phase, progress, pushed, opResult>>

\* what the last invocation of the credentials callback returned
LastCred == IF credLog = <<>> THEN "none" ELSE credLog[Len(credLog)].ret

\* the remote needs no credentials, or accepts the one the callback returned
Connected ==
    /\ phase = "connect"
    /\ LastCred \in {"none", "cred"}
    /\ phase' = "transfer"
    /\ UNCHANGED <<opKind, on, attempts, credLog, progress, events, pushed, opResult>>

\* the library gives up after the callback returned an error: the call
\* returns it, as VcsError::Backend through map_err
AuthAbort ==
    /\ phase = "connect"
    /\ LastCred \in {"auth_err", "agent_err"}
    /\ phase' = "done"
    /\ opResult' = [kind |-> map_err("LibGit2"),
                     class |-> IF LastCred = "auth_err" THEN "Auth" ELSE "Agent"]
    /\ UNCHANGED <<opKind, on, attempts, credLog, progress, events, pushed>>

\* cb.sideband_progress(|data| ..)
sideband_progress ==
    /\ phase = "transfer"
    /\ progress < MaxProgress
    /\ progress' = progress + 1
    /\ events' = emit(events, Msg("remote: ", "", NoStatus))
    /\ UNCHANGED <<opKind, on, phase, attempts, credLog, pushed, opResult>>

\* cb.transfer_progress(|p| ..)
transfer_progress ==
    /\ phase = "transfer"
    /\ progress < MaxProgress
    /\ progress' = progress + 1
    /\ events' = emit(events, Msg("pushing", "", NoStatus))
    /\ UNCHANGED <<opKind, on, phase, attempts, credLog, pushed, opResult>>

\* the connection breaks: r.fetch / r.push / builder.clone returns Err
NetworkError ==
    /\ phase \in {"connect", "transfer"}
    /\ phase' = "done"
    /\ opResult' = [kind |-> map_err("LibGit2"), class |-> "Net"]
    /\ UNCHANGED <<opKind, on, attempts, credLog, progress, events, pushed>>

\* the transfer is over. r.fetch returned Ok: fetch_with_progress then needs
\* FETCH_HEAD (`fh`); a push goes on to the per-ref statuses
TransferDone(fh) ==
    /\ phase = "transfer"
    /\ IF opKind = "push"
       THEN fh /\ phase' = "status" /\ opResult' = opResult
       ELSE /\ phase' = "done"
            /\ opKind # "fetch" => fh
            /\ opResult' = IF fh THEN [kind |-> "Ok", class |-> "none"]
                           ELSE [kind |-> map_err("LibGit2"), class |-> "Reference"]
    /\ UNCHANGED <<opKind, on, attempts, credLog, progress, events, pushed>>

\* cb.push_update_reference(|refname, status| ..): reports and returns Ok(())
push_update_reference(refname, status) ==
    /\ phase = "status"
    /\ \A i \in 1..Len(pushed) : pushed[i].ref # refname
    /\ pushed' = Append(pushed, [ref |-> refname, status |-> status, ret |-> "Ok"])
    /\ events' = emit(events, Msg("push status: ", refname, status))
    /\ UNCHANGED <<opKind, on, phase, attempts, credLog, progress, opResult>>

\* r.push(..) returns: an error only when a push_update_reference callback
\* returned one; push_refspec_with_progress and GitLibGit2::push pass it on
push_return ==
    /\ phase = "status"
    /\ pushed # <<>>
    /\ phase' = "done"
    /\ opResult' = IF \A i \in 1..Len(pushed) : pushed[i].ret = "Ok"
                   THEN [kind |-> "Ok", class |-> "none"]
                   ELSE [kind |-> map_err("LibGit2"), class |-> "Callback"]
    /\ UNCHANGED <<opKind, on, attempts, credLog, progress, events, pushed>>

RepoIdle ==
    /\ RepoInit
    /\ provider = "git-libgit2"
    /\ localId = NoIdent

InitRemote == RepoIdle /\ RemoteIdle /\ LockIdle /\ AuxIdle

Start == \E kind \in OpKinds, sink \in BOOLEAN : StartOp(kind, sink)
Credentials == \E allowed \in AllowedSets, agent \in BOOLEAN : credentials(allowed, agent)
Finish == \E fh \in BOOLEAN : TransferDone(fh)
PushUpdateReference == \E r \in PushRefs, st \in Statuses : push_update_reference(r, st)

RemoteNext ==
    \/ Start
    \/ Credentials
    \/ Connected
    \/ AuthAbort
    \/ sideband_progress
    \/ transfer_progress
    \/ NetworkError
    \/ Finish
    \/ PushUpdateReference
    \/ push_return

NextRemote == RemoteNext /\ UNCHANGED <<repoVars, lockVars, auxVars>>

SpecRemote == InitRemote /\ [][NextRemote]_vars

(***************************************************************************)
(* Properties of SpecRemote                                                *)
(***************************************************************************)
AgentTries == {i \in 1..Len(credLog) : credLog[i].agent}

\* C7: a push during which a PushStatus event with a status present was
\* emitted (the remote rejected a ref) does not return Ok
C7_RejectedRefFailsPush ==
    (/\ opKind = "push" /\ phase = "done"
     /\ \E i \in 1..Len(events) :
            events[i].type = "PushStatus" /\ events[i].status # NoStatus)
    => opResult.kind # "Ok"

\* C8: within one operation every invocation of the credentials callback
\* after the first returns an authentication error, and the SSH agent is
\* tried at most once
C8_OnlyFirstCallTriesAgent ==
    /\ \A i \in 1..Len(credLog) :
           i > 1 => (credLog[i].ret = "auth_err" /\ ~credLog[i].agent)
    /\ Cardinality(AgentTries) <= 1
    /\ Len(credLog) = attempts

\* the remote rejected the agent key the first invocation returned, and the
\* callback was invoked again for an SSH key
C8_Witness ==
    /\ Len(credLog) >= 2
    /\ credLog[1].agent /\ credLog[1].ret = "cred"
    /\ credLog[2].ssh /\ credLog[2].ret = "auth_err"

LockOps == {"commit", "checkout_branch", "create_branch", "create_branch_checkout"}
Outcomes == {"Ok", "Err", "panic"}

\* a lock() that never waits
mutex_always_free == TRUE

\* self.repo.lock(): the Mutex<Repository> is free
mutex_free == lockHolder = 0

\* a thread calls an operation of the handle
call_op(t, o) ==
    /\ pc[t] = "idle"
    /\ pc' = [pc EXCEPT ![t] = "lock"]
    /\ op' = [op EXCEPT ![t] = o]
    /\ UNCHANGED <<lockHolder, poisoned, ret>>

\* with_repo: `let repo = self.repo.lock().expect("libgit2 repo poisoned")`;
\* on a poisoned mutex expect panics, and the guard inside the error is dropped
with_repo_lock(t) ==
    /\ pc[t] = "lock"
    /\ mutex_free
    /\ IF poisoned
       THEN /\ pc' = [pc EXCEPT ![t] = "idle"]
            /\ op' = [op EXCEPT ![t] = "none"]
            /\ ret' = [ret EXCEPT ![t] = "panic"]
            /\ UNCHANGED lockHolder
       ELSE /\ lockHolder' = t
            /\ pc' = [pc EXCEPT ![t] = "inside"]
            /\ UNCHANGED <<op, ret>>
    /\ UNCHANGED poisoned

\* with_repo: `let result = f(&*repo); result`: the closure runs and the guard
\* is dropped when with_repo returns or unwinds; a panic poisons the mutex
with_repo_section(t, outcome) ==
    /\ pc[t] = "inside"
    /\ lockHolder' = IF lockHolder = t THEN 0 ELSE lockHolder
    /\ poisoned' = (poisoned \/ outcome = "panic")
    /\ IF outcome = "Ok" /\ op[t] = "create_branch_checkout"
       THEN \* create_branch: `if checkout { self.checkout_branch(name) }`
            /\ pc' = [pc EXCEPT ![t] = "lock"]
            /\ op' = [op EXCEPT ![t] = "checkout_after_create"]
            /\ UNCHANGED ret
       ELSE /\ pc' = [pc EXCEPT ![t] = "idle"]
            /\ op' = [op EXCEPT ![t] = "none"]
            /\ ret' = [ret EXCEPT ![t] = outcome]

InitLock == RepoIdle /\ RemoteIdle /\ LockIdle /\ AuxIdle

CallOp == \E t \in Threads, o \in LockOps : call_op(t, o)
Lock == \E t \in Threads : with_repo_lock(t)
Section == \E t \in Threads, outcome \in Outcomes : with_repo_section(t, outcome)

LockNext ==
    \/ CallOp
    \/ Lock
    \/ Section

NextLock == LockNext /\ UNCHANGED <<repoVars, remoteVars, auxVars>>

SpecLock == InitLock /\ [][NextLock]_vars

(***************************************************************************)
(* Properties of SpecLock                                                  *)
(***************************************************************************)
Inside == {t \in Threads : pc[t] = "inside"}

\* C10: at most one operation is inside the repository critical section, the
\* lock is held exactly while an operation is inside it (Busy) and free
\* otherwise (Open), in particular when no operation is in progress,
\* whatever the operations returned
C10_MutualExclusion ==
    /\ Cardinality(Inside) <= 1
    /\ lockHolder # 0 <=> Inside # {}
    /\ lockHolder # 0 => pc[lockHolder] = "inside"
    /\ (\A t \in Threads : pc[t] = "idle") => lockHolder = 0

\* one thread, whose previous operation returned Ok, is inside the section
\* while another, whose previous operation returned an error, waits for the lock
C10_Witness ==
    \E t, u \in Threads :
        /\ pc[t] = "inside" /\ lockHolder = t
        /\ pc[u] = "lock" /\ ret[u] = "Err"
        /\ ret[t] = "Ok"

(***************************************************************************)
(* The application session (Backend/src/state.rs) and the commands that    *)
(* work on a snapshot of the current handle (git_push and its like).       *)
(* A handle is an Arc<Repo>: the session holds one reference to the        *)
(* current handle, every snapshot is another, and the handle is dropped    *)
(* when the last of them is released.                                      *)
(***************************************************************************)
DupFree(s) == \A i, j \in DOMAIN s : i # j => s[i] # s[j]

\* what save_recents_to_disk wrote and load_recents_from_disk reads back
RecentLists ==
    {s \in UNION {[1..n -> Workdirs] : n \in 0..Cardinality(Workdirs)} : DupFree(s)}

clamp(v, lo, hi) == IF v < lo THEN lo ELSE IF v > hi THEN hi ELSE v

validate(v) == clamp(v, 1, 100)

max_items(limit) == IF limit = 0 THEN MAX_RECENTS ELSE limit

\* a handle whose every reference is released on each release
any_release(n) == TRUE

\* a list that keeps the earlier entry of the workdir being recorded
keep_all(r, path) == r

\* a list that is never cut
no_truncate(r, n) == r

\* Arc: the value is dropped when the strong count reaches zero
last_reference(n) == n = 0

retain(r, path) == SelectSeq(r, LAMBDA p : p # path)

truncate(r, n) == IF Len(r) > n THEN SubSeq(r, 1, n) ELSE r

arc_clone(hs, h) == [hs EXCEPT ![h].strong = @ + 1]

arc_drop(hs, h) ==
    IF h = NoHandle THEN hs
    ELSE LET n == hs[h].strong - 1
         IN [hs EXCEPT ![h] = [st |-> IF last_reference(n) THEN "Dropped" ELSE hs[h].st,
                               wd |-> hs[h].wd,
                               strong |-> n]]

FreshHandles == {h \in Handles : handles[h].st = "Fresh"}

\* add_repo / set_backend_cmd: open a handle on w, then the first half of
\* set_current_repo: swap it into current_repo under the write lock
set_current_repo(t, w) ==
    /\ spc[t] = "idle"
    /\ FreshHandles # {}
    /\ LET h == CHOOSE x \in FreshHandles : \A y \in FreshHandles : x <= y
           opened == [handles EXCEPT ![h] = [st |-> "Open", wd |-> w, strong |-> 1]]
       IN /\ handles' = arc_drop(opened, current_repo)
          /\ current_repo' = h
    /\ spc' = [spc EXCEPT ![t] = "recents"]
    /\ spath' = [spath EXCEPT ![t] = w]
    /\ UNCHANGED <<snap, recents, recents_limit, slimit, touched>>

\* second half of set_current_repo: the recents list under its own write lock
set_current_recents(t) ==
    /\ spc[t] = "recents"
    /\ LET r == <<spath[t]>> \o retain(recents, spath[t])
       IN recents' = truncate(r, max_items(recents_limit))
    /\ spc' = [spc EXCEPT ![t] = "idle"]
    /\ spath' = [spath EXCEPT ![t] = NoPath]
    /\ touched' = TRUE
    /\ UNCHANGED <<current_repo, handles, snap, recents_limit, slimit>>

clear_current_repo(t) ==
    /\ spc[t] = "idle"
    /\ current_repo' = NoHandle
    /\ handles' = arc_drop(handles, current_repo)
    /\ UNCHANGED <<snap, spc, spath, recents, recents_limit, slimit, touched>>

\* current_repo(): a clone of the shared reference; a command that finds
\* none returns "No repository selected"
current_repo_snapshot(t) ==
    /\ spc[t] = "idle"
    /\ IF current_repo = NoHandle
       THEN UNCHANGED <<handles, snap, spc>>
       ELSE /\ handles' = arc_clone(handles, current_repo)
            /\ snap' = [snap EXCEPT ![t] = current_repo]
            /\ spc' = [spc EXCEPT ![t] = "snap"]
    /\ UNCHANGED <<current_repo, spath, recents, recents_limit, slimit, touched>>

\* git_push: the blocking task starts working on its snapshot
git_push_start(t) ==
    /\ spc[t] = "snap"
    /\ spc' = [spc EXCEPT ![t] = "busy"]
    /\ UNCHANGED <<current_repo, handles, snap, spath, recents, recents_limit, slimit, touched>>

\* git_push: the task returns and its snapshot goes out of scope
git_push_finish(t) ==
    /\ spc[t] = "busy"
    /\ handles' = arc_drop(handles, snap[t])
    /\ snap' = [snap EXCEPT ![t] = NoHandle]
    /\ spc' = [spc EXCEPT ![t] = "idle"]
    /\ UNCHANGED <<current_repo, spath, recents, recents_limit, slimit, touched>>

\* set_config / edit_config: validate, save, swap; a failed save returns
\* the error before anything changes
set_config(t, v, saved) ==
    /\ spc[t] = "idle"
    /\ IF saved
       THEN /\ recents_limit' = validate(v)
            /\ spc' = [spc EXCEPT ![t] = "enforce"]
       ELSE UNCHANGED <<recents_limit, spc>>
    /\ UNCHANGED <<current_repo, handles, snap, spath, recents, slimit, touched>>

\* enforce_recents_limit_and_persist: the limit is read from the config
\* before the recents lock is taken
enforce_read_limit(t) ==
    /\ spc[t] = "enforce"
    /\ slimit' = [slimit EXCEPT ![t] = recents_limit]
    /\ spc' = [spc EXCEPT ![t] = "truncate"]
    /\ UNCHANGED <<current_repo, handles, snap, spath, recents, recents_limit, touched>>

enforce_recents_limit_and_persist(t) ==
    /\ spc[t] = "truncate"
    /\ recents' = truncate(recents, max_items(slimit[t]))
    /\ spc' = [spc EXCEPT ![t] = "idle"]
    /\ slimit' = [slimit EXCEPT ![t] = 0]
    /\ touched' = TRUE
    /\ UNCHANGED <<current_repo, handles, snap, spath, recents_limit>>

\* new_with_config: load_or_default (migrate + validate), then the recents
\* file as the previous run left it
new_with_config ==
    /\ current_repo = NoHandle
    /\ handles = [h \in Handles |-> [st |-> "Fresh", wd |-> NoPath, strong |-> 0]]
    /\ snap = [t \in Callers |-> NoHandle]
    /\ spc = [t \in Callers |-> "idle"]
    /\ spath = [t \in Callers |-> NoPath]
    /\ recents \in RecentLists
    /\ recents_limit \in {validate(v) : v \in LimitInputs}
    /\ slimit = [t \in Callers |-> 0]
    /\ touched = FALSE

InitSession ==
    /\ RepoIdle /\ RemoteIdle /\ LockIdle /\ new_with_config
    /\ StatusIdle /\ BranchIdle /\ LogIdle /\ PatchIdle /\ EventsIdle /\ MoreIdle

SetCurrentRepo == \E t \in Callers, w \in Workdirs : set_current_repo(t, w)
SetCurrentRecents == \E t \in Callers : set_current_recents(t)
ClearCurrentRepo == \E t \in Callers : clear_current_repo(t)
CurrentRepo == \E t \in Callers : current_repo_snapshot(t)
GitPushStart == \E t \in Callers : git_push_start(t)
GitPushFinish == \E t \in Callers : git_push_finish(t)
SetConfig == \E t \in Callers, v \in LimitInputs, saved \in BOOLEAN : set_config(t, v, saved)
EnforceReadLimit == \E t \in Callers : enforce_read_limit(t)
EnforceRecentsLimit == \E t \in Callers : enforce_recents_limit_and_persist(t)

SessionNext ==
    \/ SetCurrentRepo
    \/ SetCurrentRecents
    \/ ClearCurrentRepo
    \/ CurrentRepo
    \/ GitPushStart
    \/ GitPushFinish
    \/ SetConfig
    \/ EnforceReadLimit
    \/ EnforceRecentsLimit

NextSession ==
    SessionNext /\ UNCHANGED <<repoVars, remoteVars, lockVars, statusVars, branchVars,
                               logVars, patchVars, eventVars, moreVars>>

SpecSession == InitSession /\ [][NextSession]_vars

(***************************************************************************)
(* Properties of SpecSession                                               *)
(***************************************************************************)
Holders(h) == {t \in Callers : snap[t] = h}

Working(t) == spc[t] \in {"snap", "busy"}

\* C11: an operation started on a snapshot keeps that handle, Open, until it
\* completes, whatever set_current and clear do in between; a handle is
\* Dropped only when neither the session nor any snapshot refers to it
C11_SnapshotOutlivesSwap ==
    /\ [](\A t \in Callers :
            Working(t) => /\ snap[t] # NoHandle
                          /\ handles[snap[t]].st = "Open")
    /\ [](\A h \in Handles :
            handles[h].st = "Dropped" => /\ current_repo # h
                                         /\ Holders(h) = {})
    /\ [][\A t \in Callers :
            (Working(t) /\ spc'[t] # "idle") => snap'[t] = snap[t]]_vars

\* an operation is in progress on a handle that the session has already
\* replaced by another one, and a third handle was dropped in the meantime
C11_Witness ==
    \E t \in Callers :
        /\ spc[t] = "busy"
        /\ current_repo # NoHandle
        /\ current_repo # snap[t]
        /\ handles[snap[t]].st = "Open"
        /\ \E h \in Handles : handles[h].st = "Dropped"

Range(q) == {q[i] : i \in DOMAIN q}

IsPrefix(a, b) == Len(a) <= Len(b) /\ \A i \in DOMAIN a : a[i] = b[i]

Without(q, w) == SelectSeq(q, LAMBDA x : x # w)

Recording(t) == spc[t] = "recents" /\ spc'[t] = "idle"

Settling == {t \in Callers : spc[t] \in {"enforce", "truncate"}}

NoDelta == [old |-> "", new |-> ""]

Delta(o, n) == [old |-> o, new |-> n]

\* head-to-index part of a libgit2 status entry
Lg2IndexSides ==
    {[f |-> {}, d |-> NoDelta],
     [f |-> {"INDEX_NEW"}, d |-> Delta("a", "a")],
     [f |-> {"INDEX_MODIFIED"}, d |-> Delta("a", "a")],
     [f |-> {"INDEX_DELETED"}, d |-> Delta("a", "a")],
     [f |-> {"INDEX_TYPECHANGE"}, d |-> Delta("a", "a")],
     [f |-> {"INDEX_RENAMED"}, d |-> Delta("a", "b")],
     [f |-> {"INDEX_RENAMED", "INDEX_MODIFIED"}, d |-> Delta("a", "b")]}

\* index-to-workdir part, the path being the one the index side ended on
Lg2WorkdirSides(p) ==
    {[f |-> {}, d |-> NoDelta],
     [f |-> {"WT_NEW"}, d |-> Delta(p, p)],
     [f |-> {"WT_MODIFIED"}, d |-> Delta(p, p)],
     [f |-> {"WT_DELETED"}, d |-> Delta(p, p)],
     [f |-> {"WT_TYPECHANGE"}, d |-> Delta(p, p)],
     [f |-> {"WT_RENAMED"}, d |-> Delta(p, "c")],
     [f |-> {"WT_RENAMED", "WT_MODIFIED"}, d |-> Delta(p, "c")]}

\* combinations git_status_list_new can report: an untracked file has no
\* index entry, and a file deleted from the index has no tracked workdir side
Lg2Compatible(i, w) ==
    /\ i.f \cup w.f # {}
    /\ "WT_NEW" \in w.f => i.f \subseteq {"INDEX_DELETED"}
    /\ "INDEX_DELETED" \in i.f => w.f \subseteq {"WT_NEW"}

Lg2Entries ==
    UNION {{[prov |-> "git-libgit2", flags |-> i.f \cup w.f, h2i |-> i.d, i2w |-> w.d] :
                w \in {x \in Lg2WorkdirSides(IF i.d = NoDelta THEN "a" ELSE i.d.new) :
                          Lg2Compatible(i, x)}} :
            i \in Lg2IndexSides}
    \cup {[prov |-> "git-libgit2", flags |-> {"CONFLICTED"},
           h2i |-> NoDelta, i2w |-> Delta("a", "a")]}

\* "<X><Y>" of an ordinary ("1") or rename/copy ("2") porcelain v2 line
XYOrdinary ==
    {<<x, y>> \in {".", "M", "T", "A", "D"} \X {".", "M", "T", "D"} :
        /\ <<x, y>> # <<".", ".">>
        /\ x = "D" => y = "."}

XYRename == {"R", "C"} \X {".", "M", "T", "D"}

\* the whitespace-separated tokens of a line: a rename/copy line ends with
\* "<path><TAB><origPath>"
SysLines ==
    {[prov |-> "git-system", kind |-> "?", xy |-> <<"?", "?">>, tokens |-> <<"?", p>>] :
        p \in {"a", "b"}}
    \cup {[prov |-> "git-system", kind |-> "1", xy |-> xy, tokens |-> <<"1", "XY", p>>] :
        xy \in XYOrdinary, p \in {"a", "b"}}
    \cup {[prov |-> "git-system", kind |-> "2", xy |-> xy, tokens |-> <<"2", "XY", "b", "a">>] :
        xy \in XYRename}
    \cup {[prov |-> "git-system", kind |-> "u", xy |-> <<"U", "U">>, tokens |-> <<"u", "XY", p>>] :
        p \in {"a", "b"}}

Lg2_status_code(s) ==
    IF "CONFLICTED" \in s THEN "U"
    ELSE IF "INDEX_DELETED" \in s \/ "WT_DELETED" \in s THEN "D"
    ELSE IF "INDEX_NEW" \in s \/ "WT_NEW" \in s THEN "A"
    ELSE IF s \cap {"INDEX_MODIFIED", "WT_MODIFIED", "INDEX_TYPECHANGE",
                    "WT_TYPECHANGE"} # {} THEN "M"
    ELSE "R?"

Lg2_status_path(e) ==
    IF e.h2i.new # "" THEN e.h2i.new
    ELSE IF e.i2w.new # "" THEN e.i2w.new
    ELSE IF e.h2i.old # "" THEN e.h2i.old
    ELSE e.i2w.old

Lg2_status_payload ==
    /\ stIn.prov = "git-libgit2"
    /\ stOut = NoEntry
    /\ stOut' = [path |-> Lg2_status_path(stIn), status |-> Lg2_status_code(stIn.flags)]
    /\ UNCHANGED stIn

is_mod(c) == c = "M" \/ c = "T"

Sys_status_code(x, y) ==
    IF x = "A" \/ y = "A" THEN "A"
    ELSE IF x = "D" \/ y = "D" THEN "D"
    ELSE IF is_mod(x) \/ is_mod(y) THEN "M"
    ELSE "M"

split_whitespace_last(tokens) == tokens[Len(tokens)]

Sys_status_payload ==
    /\ stIn.prov = "git-system"
    /\ stOut = NoEntry
    /\ stOut' = [path |-> split_whitespace_last(stIn.tokens),
                 status |-> CASE stIn.kind = "?" -> "A"
                              [] stIn.kind = "1" -> Sys_status_code(stIn.xy[1], stIn.xy[2])
                              [] stIn.kind = "2" -> "R"
                              [] stIn.kind = "u" -> "U"]
    /\ UNCHANGED stIn

InitStatus ==
    /\ RepoIdle /\ RemoteIdle /\ LockIdle /\ SessIdle /\ BranchIdle /\ LogIdle /\ PatchIdle
    /\ EventsIdle /\ MoreIdle
    /\ stIn \in Lg2Entries \cup SysLines
    /\ stOut = NoEntry

StatusNext ==
    \/ Lg2_status_payload
    \/ Sys_status_payload

NextStatus ==
    StatusNext /\ UNCHANGED <<repoVars, remoteVars, lockVars, sessVars, branchVars, logVars,
                              patchVars, eventVars, moreVars>>

SpecStatus == InitStatus /\ [][NextStatus]_vars

(***************************************************************************)
(* Properties of SpecStatus                                                *)
(***************************************************************************)
StatusLetters == {"A", "M", "D", "R", "U"}

\* C14: the status of every entry status_payload returns is one of the five
\* letters A, M, D, R, U
C14_StatusIsOneOfFiveLetters ==
    stOut # NoEntry => stOut.status \in StatusLetters

\* what the scan says about the entry, whichever provider reported it
IsConflicted ==
    IF stIn.prov = "git-libgit2" THEN "CONFLICTED" \in stIn.flags
    ELSE stIn.kind = "u"

IsRename ==
    IF stIn.prov = "git-libgit2"
    THEN stIn.flags \cap {"INDEX_RENAMED", "WT_RENAMED"} # {}
    ELSE stIn.kind = "2"

IsDeleted ==
    IF stIn.prov = "git-libgit2"
    THEN stIn.flags \cap {"INDEX_DELETED", "WT_DELETED"} # {}
    ELSE stIn.kind \in {"1", "2"} /\ "D" \in {stIn.xy[1], stIn.xy[2]}

IsModified ==
    IF stIn.prov = "git-libgit2"
    THEN stIn.flags \cap {"INDEX_MODIFIED", "WT_MODIFIED", "INDEX_TYPECHANGE",
                          "WT_TYPECHANGE"} # {}
    ELSE stIn.kind \in {"1", "2"} /\ {stIn.xy[1], stIn.xy[2]} \cap {"M", "T"} # {}

NewPath ==
    IF stIn.prov = "git-libgit2"
    THEN (IF stIn.i2w.new # "" THEN stIn.i2w.new ELSE stIn.h2i.new)
    ELSE stIn.tokens[3]

\* C15: U for a conflicted entry; otherwise D for an entry deleted in the
\* index or the working tree, also when it is added or modified as well;
\* otherwise M for a modified or type-changed entry; A only when the entry is
\* none of these; a rename record gives R with the new path
C15_StatusPrecedence ==
    stOut # NoEntry =>
        /\ IsConflicted => stOut.status = "U"
        /\ (~IsConflicted /\ ~IsRename /\ IsDeleted) => stOut.status = "D"
        /\ (~IsConflicted /\ ~IsRename /\ ~IsDeleted /\ IsModified) => stOut.status = "M"
        /\ stOut.status = "A" => (~IsConflicted /\ ~IsDeleted /\ ~IsModified)
        /\ (IsRename /\ ~IsConflicted /\ ~IsDeleted /\ ~IsModified)
               => (stOut.status = "R" /\ stOut.path = NewPath)

(***************************************************************************)
(* git_list_branches: branches() and current_branch() of the provider,     *)
(* then the normalisation of tauri_commands.rs.  A string is the sequence  *)
(* of its "/"-separated components; " " stands for surrounding whitespace. *)
(***************************************************************************)
RefOrder ==
    << <<"refs", "heads", "dev">>,
       <<"refs", "heads", "main">>,
       <<"refs", "heads", "origin", "main">>,
       <<"refs", "remotes", "origin", "HEAD">>,
       <<"refs", "remotes", "origin", "main">>,
       <<"refs", "remotes", "up", "dev">> >>

AllRefs == {RefOrder[i] : i \in DOMAIN RefOrder}

starts_with(full, ns) == Len(full) >= 2 /\ full[1] = "refs" /\ full[2] = ns

ends_with_HEAD(full) == Len(full) > 1 /\ full[Len(full)] = "HEAD"

\* %(refname:short), Branch::name(), Reference::shorthand()
shorthand(full) == SubSeq(full, 3, Len(full))

LocalNames == {shorthand(r) : r \in {x \in AllRefs : starts_with(x, "heads")}}

\* HEAD: detached, or on a branch that exists or is still unborn
HeadStates == {[kind |-> "detached", name |-> <<>>]}
                  \cup {[kind |-> "branch", name |-> n] : n \in LocalNames}

BranchRepos ==
    {[prov |-> pv, refs |-> rs, head |-> h] :
        pv \in Providers, rs \in SUBSET AllRefs, h \in HeadStates}

Unborn(repo) == repo.head.kind = "branch" /\ <<"refs", "heads">> \o repo.head.name \notin repo.refs

Local == [k |-> "Local", remote |-> <<>>]

Remote(r) == [k |-> "Remote", remote |-> r]

UnknownKind == [k |-> "Unknown", remote |-> <<>>]

RECURSIVE Sys_branch_lines(_, _)
Sys_branch_lines(repo, i) ==
    IF i > Len(RefOrder) THEN <<>>
    ELSE LET full == RefOrder[i]
             rest == Sys_branch_lines(repo, i + 1)
             head_flag == repo.head.kind = "branch" /\ full = <<"refs", "heads">> \o repo.head.name
         IN IF full \notin repo.refs THEN rest
            ELSE IF starts_with(full, "heads")
            THEN <<[name |-> shorthand(full), full_ref |-> full, kind |-> Local,
                    current |-> head_flag]>> \o rest
            ELSE IF starts_with(full, "remotes")
            THEN (IF ends_with_HEAD(full) THEN rest
                  ELSE <<[name |-> shorthand(full), full_ref |-> full,
                          kind |-> Remote(<<full[3]>>), current |-> FALSE]>> \o rest)
            ELSE rest

RECURSIVE Lg2_branch_items(_, _)
Lg2_branch_items(repo, i) ==
    IF i > Len(RefOrder) THEN <<>>
    ELSE LET full == RefOrder[i]
             rest == Lg2_branch_items(repo, i + 1)
             name == shorthand(full)
             bty == IF starts_with(full, "heads") THEN "Local" ELSE "Remote"
             is_head == repo.head.kind = "branch" /\ full = <<"refs", "heads">> \o repo.head.name
         IN IF full \notin repo.refs THEN rest
            ELSE IF ends_with_HEAD(full) /\ bty = "Remote" THEN rest
            ELSE <<[name |-> name, full_ref |-> full,
                    kind |-> IF bty = "Local" THEN Local ELSE Remote(<<name[1]>>),
                    current |-> bty = "Local" /\ is_head]>> \o rest

\* Ok(Some(name)), Ok(None), or Err
Sys_current_branch(repo) ==
    IF Unborn(repo) THEN [res |-> "Err", name |-> <<>>]
    ELSE IF repo.head.kind = "detached" THEN [res |-> "None", name |-> <<>>]
    ELSE [res |-> "Some", name |-> repo.head.name]

Lg2_current_branch(repo) ==
    IF Unborn(repo) \/ repo.head.kind = "detached" THEN [res |-> "None", name |-> <<>>]
    ELSE [res |-> "Some", name |-> repo.head.name]

RECURSIVE trim(_)
trim(str) ==
    IF str = <<>> THEN <<>>
    ELSE IF Head(str) = " " THEN trim(Tail(str))
    ELSE IF str[Len(str)] = " " THEN trim(SubSeq(str, 1, Len(str) - 1))
    ELSE str

infer_kind(full_ref) ==
    IF starts_with(full_ref, "heads") THEN Local
    ELSE IF starts_with(full_ref, "remotes")
    THEN (IF Len(full_ref) >= 4 THEN Remote(<<full_ref[3]>>) ELSE Remote(<<"unknown">>))
    ELSE UnknownKind

\* a reconciliation that marks every item carrying the current name
name_is_current(kind, name, curr) == curr.res = "Some" /\ name = curr.name

\* only locals can be current
is_current(kind, name, curr) == kind.k = "Local" /\ curr.res = "Some" /\ name = curr.name

RECURSIVE normalize(_, _, _, _)
normalize(items, curr, seen, out) ==
    IF items = <<>> THEN out
    ELSE LET it0 == Head(items)
             name == trim(it0.name)
             full_ref == trim(it0.full_ref)
             kind == IF it0.kind.k = "Unknown" THEN infer_kind(full_ref) ELSE it0.kind
             it == [name |-> name, full_ref |-> full_ref, kind |-> kind,
                    current |-> is_current(kind, name, curr)]
         IN IF name = <<>> \/ full_ref = <<>>
            THEN normalize(Tail(items), curr, seen, out)
            ELSE IF full_ref \in seen
            THEN normalize(Tail(items), curr, seen, out)
            ELSE normalize(Tail(items), curr, seen \cup {full_ref}, Append(out, it))

bucket(x) ==
    IF x.current THEN 0
    ELSE CASE x.kind.k = "Local" -> 1
           [] x.kind.k = "Remote" -> 2
           [] x.kind.k = "Unknown" -> 3

\* byte order of the short names that occur
NameRank(name) ==
    CASE name = <<"dev">> -> 1
      [] name = <<"main">> -> 2
      [] name = <<"origin", "main">> -> 3
      [] name = <<"up", "dev">> -> 4
      [] OTHER -> 5

SortsBefore(a, b) ==
    \/ bucket(a) < bucket(b)
    \/ bucket(a) = bucket(b) /\ NameRank(a.name) < NameRank(b.name)

RECURSIVE insert_sorted(_, _)
insert_sorted(sorted, x) ==
    IF sorted = <<>> THEN <<x>>
    ELSE IF SortsBefore(x, Head(sorted)) THEN <<x>> \o sorted
    ELSE <<Head(sorted)>> \o insert_sorted(Tail(sorted), x)

RECURSIVE sort_by(_)
sort_by(items) ==
    IF items = <<>> THEN <<>>
    ELSE insert_sorted(sort_by(SubSeq(items, 1, Len(items) - 1)), items[Len(items)])

git_list_branches(items, curr) ==
    /\ brOut = NoList
    /\ brOut' = IF curr.res = "Err" THEN [res |-> "Err", items |-> <<>>]
                ELSE [res |-> "Ok", items |-> sort_by(normalize(items, curr, {}, <<>>))]
    /\ UNCHANGED brIn

Sys_list_branches ==
    /\ brIn.prov = "git-system"
    /\ git_list_branches(Sys_branch_lines(brIn, 1), Sys_current_branch(brIn))

Lg2_list_branches ==
    /\ brIn.prov = "git-libgit2"
    /\ git_list_branches(Lg2_branch_items(brIn, 1), Lg2_current_branch(brIn))

InitBranches ==
    /\ RepoIdle /\ RemoteIdle /\ LockIdle /\ SessIdle /\ StatusIdle /\ LogIdle /\ PatchIdle
    /\ EventsIdle /\ MoreIdle
    /\ brIn \in BranchRepos
    /\ brOut = NoList

BranchesNext ==
    \/ Sys_list_branches
    \/ Lg2_list_branches

NextBranches ==
    BranchesNext /\ UNCHANGED <<repoVars, remoteVars, lockVars, sessVars, statusVars, logVars,
                                patchVars, eventVars, moreVars>>

SpecBranches == InitBranches /\ [][NextBranches]_vars

(***************************************************************************)
(* Properties of SpecBranches                                              *)
(***************************************************************************)
\* C16: in the normalized list every item has a non-empty name and full_ref,
\* no two items share a full_ref, at most one item is current, and a current
\* item is of kind Local
C16_NormalizedBranchList ==
    LET out == brOut.items
    IN /\ \A i \in DOMAIN out : out[i].name # <<>> /\ out[i].full_ref # <<>>
       /\ \A i, j \in DOMAIN out : i # j => out[i].full_ref # out[j].full_ref
       /\ Cardinality({i \in DOMAIN out : out[i].current}) <= 1
       /\ \A i \in DOMAIN out : out[i].current => out[i].kind.k = "Local"

\* the local branch origin/main is checked out and the remote-tracking branch
\* of the same short name is listed too: only the local one is current
C16_Witness ==
    /\ brOut.res = "Ok"
    /\ \E i, j \in DOMAIN brOut.items :
        /\ brOut.items[i].current
        /\ brOut.items[i].kind.k = "Local"
        /\ brOut.items[j].kind.k = "Remote"
        /\ brOut.items[j].name = brOut.items[i].name
        /\ ~brOut.items[j].current

(***************************************************************************)
(* log_commits.  The history is the sequence of commits the walk from the  *)
(* rev yields, newest first; a commit is a merge or not and has an author. *)
(***************************************************************************)
LogCommits == [merge : BOOLEAN, author : Idents]

Histories == UNION {[1..n -> LogCommits] : n \in 0..MaxLog}

\* include_merges, author_contains, skip, limit
LogQueries ==
    [include_merges : BOOLEAN, author_contains : {NoIdent} \cup Idents,
     skip : 0..MaxPage, limit : 0..MaxPage]

CommitItem(h, i) == [id |-> i, author |-> h[i].author]

\* the filters both providers apply before pagination
Filtered(c, q) ==
    \/ ~q.include_merges /\ c.merge
    \/ q.author_contains # NoIdent /\ c.author # q.author_contains

\* the revwalk loop: filters, then skip, then push and the limit test
RECURSIVE Lg2_walk(_, _, _, _, _)
Lg2_walk(h, q, i, matched, out) ==
    IF i > Len(h) THEN out
    ELSE IF Filtered(h[i], q) THEN Lg2_walk(h, q, i + 1, matched, out)
    ELSE IF matched < q.skip THEN Lg2_walk(h, q, i + 1, matched + 1, out)
    ELSE LET pushed_out == Append(out, CommitItem(h, i))
         IN IF Len(pushed_out) >= q.limit THEN pushed_out
            ELSE Lg2_walk(h, q, i + 1, matched, pushed_out)

Lg2_log(h, q) == Lg2_walk(h, q, 1, 0, <<>>)

\* git log --skip=<skip> --max-count=<limit> with --no-merges / --author
RECURSIVE git_log(_, _, _, _, _)
git_log(h, q, i, skipped, shown) ==
    IF i > Len(h) THEN <<>>
    ELSE IF Filtered(h[i], q) THEN git_log(h, q, i + 1, skipped, shown)
    ELSE IF skipped < q.skip THEN git_log(h, q, i + 1, skipped + 1, shown)
    ELSE IF shown >= q.limit THEN <<>>
    ELSE <<CommitItem(h, i)>> \o git_log(h, q, i + 1, skipped, shown + 1)

Sys_log(h, q) == git_log(h, q, 1, 0, 0)

log_commits(prov, h, q) == IF prov = "git-libgit2" THEN Lg2_log(h, q) ELSE Sys_log(h, q)

Lg2_log_commits ==
    /\ logIn.prov = "git-libgit2"
    /\ logOut = NoList
    /\ logOut' = [res |-> "Ok", items |-> Lg2_log(logIn.h, logIn.q)]
    /\ UNCHANGED logIn

Sys_log_commits ==
    /\ logIn.prov = "git-system"
    /\ logOut = NoList
    /\ logOut' = [res |-> "Ok", items |-> Sys_log(logIn.h, logIn.q)]
    /\ UNCHANGED logIn

InitLog ==
    /\ RepoIdle /\ RemoteIdle /\ LockIdle /\ SessIdle /\ StatusIdle /\ BranchIdle /\ PatchIdle
    /\ EventsIdle /\ MoreIdle
    /\ logIn \in [prov : Providers, h : Histories, q : LogQueries]
    /\ logOut = NoList

LogNext ==
    \/ Lg2_log_commits
    \/ Sys_log_commits

NextLog ==
    LogNext /\ UNCHANGED <<repoVars, remoteVars, lockVars, sessVars, statusVars, branchVars,
                           patchVars, eventVars, moreVars>>

SpecLog == InitLog /\ [][NextLog]_vars

(***************************************************************************)
(* Properties of SpecLog                                                   *)
(***************************************************************************)
\* C17: log_commits(q) returns at most q.limit items, for q.limit = 0 too
C17_AtMostLimitItems ==
    logOut.res = "Ok" => Len(logOut.items) <= logIn.q.limit

SuffixFrom(q, k) == SubSeq(q, k + 1, Len(q))

\* C18: the page skip=k, limit=n is the suffix from index k of the page
\* skip=0, limit=k+n of the same history under the same filters
C18_PaginationConsistent ==
    logOut.res = "Ok" =>
        logOut.items =
            SuffixFrom(log_commits(logIn.prov, logIn.h,
                                   [logIn.q EXCEPT !.skip = 0,
                                                   !.limit = logIn.q.skip + logIn.q.limit]),
                       logIn.q.skip)

(***************************************************************************)
(* stage_patch and apply_reverse_patch (system provider) on one file.      *)
(* A copy of the file is the set of hunks it carries on top of the HEAD    *)
(* version; a patch adds some hunks and removes others.                    *)
(***************************************************************************)
Hunks == 1..MaxHunks

NoPatch == [add |-> {}, del |-> {}]

\* git status --porcelain=v2 on the file, read as status_payload reads it
Patch_status_payload(idx, work) ==
    LET x == IF idx # {} THEN "M" ELSE "."
        y == IF work # idx THEN "M" ELSE "."
    IN IF x = "." /\ y = "." THEN <<>>
       ELSE <<[path |-> "a", status |-> Sys_status_code(x, y)]>>

\* does a patch apply to a copy, forwards or in reverse
Applies(patch, copy) == patch.add \cap copy = {} /\ patch.del \subseteq copy

Reversed(patch) == [add |-> patch.del, del |-> patch.add]

Apply(patch, copy) == (copy \cup patch.add) \ patch.del

\* git apply --reverse --cached: the index alone
index_only == FALSE

\* git apply --index: the index and the working tree, which must agree
with_index == TRUE

\* the consumer takes a patch out of the unstaged changes of the file
\* (diff_file: index against working tree)
take_patch(patch) ==
    /\ pt.phase = "edited"
    /\ patch # NoPatch
    /\ patch.add \subseteq pt.work \ pt.index
    /\ patch.del \subseteq pt.index \ pt.work
    /\ pt' = [pt EXCEPT !.phase = "taken", !.patch = patch,
                        !.pre = [index |-> pt.index, work |-> pt.work]]

\* git apply --cached --unidiff-zero -p1
stage_patch ==
    /\ pt.phase = "taken"
    /\ IF Applies(pt.patch, pt.index)
       THEN pt' = [pt EXCEPT !.phase = "staged", !.res = "Ok",
                             !.index = Apply(pt.patch, pt.index)]
       ELSE pt' = [pt EXCEPT !.phase = "staged", !.res = run_git_failed]

\* git apply --reverse --index --unidiff-zero -p1
apply_reverse_patch ==
    /\ pt.phase = "staged"
    /\ pt.res = "Ok"
    /\ LET rev == Reversed(pt.patch)
           ok == /\ Applies(rev, pt.index)
                 /\ with_index => (pt.work = pt.index /\ Applies(rev, pt.work))
       IN IF ok
          THEN pt' = [pt EXCEPT !.phase = "reversed", !.res = "Ok",
                                !.index = Apply(rev, pt.index),
                                !.work = IF with_index THEN Apply(rev, pt.work)
                                         ELSE pt.work]
          ELSE pt' = [pt EXCEPT !.phase = "reversed", !.res = run_git_failed]

InitPatch ==
    /\ RepoIdle /\ RemoteIdle /\ LockIdle /\ SessIdle /\ StatusIdle /\ BranchIdle /\ LogIdle
    /\ EventsIdle /\ MoreIdle
    /\ \E idx \in SUBSET Hunks, work \in SUBSET Hunks :
          pt = [phase |-> "edited", index |-> idx, work |-> work, patch |-> NoPatch,
                pre |-> [index |-> idx, work |-> work], res |-> "none"]

TakePatch == \E a \in SUBSET Hunks, d \in SUBSET Hunks : take_patch([add |-> a, del |-> d])

PatchNext ==
    \/ TakePatch
    \/ stage_patch
    \/ apply_reverse_patch

NextPatch ==
    PatchNext /\ UNCHANGED <<repoVars, remoteVars, lockVars, sessVars, statusVars, branchVars,
                             logVars, eventVars, moreVars>>

SpecPatch == InitPatch /\ [][NextPatch]_vars

(***************************************************************************)
(* Properties of SpecPatch                                                 *)
(***************************************************************************)
\* C19 as stated: after stage_patch(P) and apply_reverse_patch(P) the status
\* is the one before stage_patch, the working-tree change is still there and
\* the index has its previous content
C19_RoundTripRestoresStatus ==
    pt.phase = "reversed" =>
        /\ Patch_status_payload(pt.index, pt.work)
               = Patch_status_payload(pt.pre.index, pt.pre.work)
        /\ pt.work = pt.pre.work
        /\ pt.index = pt.pre.index

\* C19: stage_patch(P) puts P into the index and leaves the working tree
\* alone; apply_reverse_patch(P) then succeeds exactly when the working-tree
\* copy equals the index copy, and takes P out of both: the index has its
\* previous content again and the working tree has lost the change; when it
\* fails P stays staged
C19_ReverseRemovesFromBoth ==
    /\ (pt.phase = "staged" /\ pt.res = "Ok")
           => (pt.index = Apply(pt.patch, pt.pre.index) /\ pt.work = pt.pre.work)
    /\ pt.phase = "reversed" =>
           IF pt.pre.work = Apply(pt.patch, pt.pre.index)
           THEN /\ pt.res = "Ok"
                /\ pt.index = pt.pre.index
                /\ pt.work = pt.pre.index
           ELSE /\ pt.res = run_git_failed
                /\ pt.index = Apply(pt.patch, pt.pre.index)
                /\ pt.work = pt.pre.work

\* the patch was the whole unstaged change of a file with a clean index;
\* after the two calls the change is in neither the index nor the working tree
C19_Witness ==
    /\ pt.phase = "reversed"
    /\ pt.res = "Ok"
    /\ pt.pre.index = {}
    /\ pt.pre.work # {}
    /\ pt.work = {}
    /\ Patch_status_payload(pt.index, pt.work) = <<>>
    /\ Patch_status_payload(pt.pre.index, pt.pre.work) # <<>>

(***************************************************************************)
(* Events.  The same operation is run twice, run "A" without on_event and  *)
(* run "B" with any on_event; both runs meet the same behaviour of the git *)
(* process (system provider) or of the library and the remote (libgit2).   *)
(***************************************************************************)
Sinks == {"absent", "discard", "collect"}   \* None, Some(|_| {}), Some(recording sink)

RunIds == {"A", "B"}

NewRun(sink) ==
    [sink |-> sink, phase |-> "connect", attempts |-> 0, calls |-> 0, lastret |-> "none",
     events |-> <<>>, result |-> NoResult, applied |-> FALSE]

\* does a progress string of this run reach a consumer that records it:
\* GitLibGit2::fetch and push wrap on_event with adapt_progress, clone and
\* pull_ff_only drop it; run_git_streaming calls it for every line
Forwards(r) ==
    /\ r.sink = "collect"
    /\ evOp.prov = "git-libgit2" => evOp.kind \in {"fetch", "push"}

deliver(r, m) ==
    IF ~Forwards(r) THEN r.events
    ELSE IF evOp.prov = "git-libgit2" THEN Append(r.events, adapt_progress(m))
    ELSE Append(r.events, [type |-> "Progress", ref |-> "", status |-> NoStatus])

\* a progress callback that lets the transfer go on only when somebody listens
continues_with_sink(r) == r.sink # "absent"

\* sideband_progress / transfer_progress return true
callback_continues(r) == TRUE

\* is the environment's step `e` one this run can take
Accepts(r, e) ==
    CASE e.t = "credentials" -> r.phase = "connect" /\ r.attempts < MaxAttempts
      [] e.t = "connected" -> r.phase = "connect" /\ r.lastret \in {"none", "cred"}
      [] e.t = "auth_abort" -> r.phase = "connect" /\ r.lastret \in {"auth_err", "agent_err"}
      [] e.t = "progress" -> r.phase = "transfer" /\ r.calls < MaxProgress
      [] e.t = "network_error" -> r.phase \in {"connect", "transfer"}
      [] e.t = "transfer_done" -> r.phase = "transfer"
      [] e.t = "push_update_reference" -> r.phase = "status" /\ r.calls < MaxProgress
      [] e.t = "push_return" -> r.phase = "status"
      [] e.t = "line" -> r.phase = "connect" /\ r.calls < MaxProgress
      [] e.t = "exit" -> r.phase = "connect"

\* one run's reaction to the step
Step(r, e) ==
    IF ~Accepts(r, e) THEN r
    ELSE CASE e.t = "credentials" ->
                LET n == r.attempts + 1
                    e1 == deliver(r, Msg("auth:", "", NoStatus))
                    ssh == "SSH_KEY" \in e.allowed
                    r1 == [r EXCEPT !.events = e1]
                IN [r EXCEPT
                      !.attempts = n,
                      !.events = IF ssh /\ first_attempt(n)
                                 THEN deliver(r1, Msg("auth:", "", NoStatus)) ELSE e1,
                      !.lastret = IF ssh /\ first_attempt(n)
                                  THEN (IF e.agent THEN "cred" ELSE "agent_err")
                                  ELSE "auth_err"]
           [] e.t = "connected" -> [r EXCEPT !.phase = "transfer"]
           [] e.t = "auth_abort" ->
                [r EXCEPT !.phase = "done",
                          !.result = [kind |-> map_err("LibGit2"), class |-> "Auth"]]
           [] e.t = "progress" ->
                IF callback_continues(r)
                THEN [r EXCEPT !.calls = @ + 1,
                               !.events = deliver(r, Msg(e.prefix, "", NoStatus))]
                ELSE [r EXCEPT !.phase = "done",
                               !.result = [kind |-> map_err("LibGit2"), class |-> "User"]]
           [] e.t = "network_error" ->
                [r EXCEPT !.phase = "done",
                          !.result = [kind |-> map_err("LibGit2"), class |-> "Net"]]
           [] e.t = "transfer_done" ->
                IF evOp.kind = "push" THEN [r EXCEPT !.phase = "status", !.calls = 0]
                ELSE [r EXCEPT !.phase = "done", !.applied = TRUE,
                               !.result = IF e.ok THEN [kind |-> "Ok", class |-> "none"]
                                          ELSE [kind |-> map_err("LibGit2"),
                                                class |-> "Reference"]]
           [] e.t = "push_update_reference" ->
                [r EXCEPT !.calls = @ + 1,
                          !.events = deliver(r, Msg("push status: ", e.ref, e.status))]
           [] e.t = "push_return" ->
                [r EXCEPT !.phase = "done", !.applied = TRUE,
                          !.result = [kind |-> "Ok", class |-> "none"]]
           [] e.t = "line" ->
                [r EXCEPT !.calls = @ + 1, !.events = deliver(r, Msg("git", "", NoStatus))]
           [] e.t = "exit" ->
                [r EXCEPT !.phase = "done", !.applied = e.ok,
                          !.result = IF e.ok THEN [kind |-> "Ok", class |-> "none"]
                                     ELSE [kind |-> run_git_failed, class |-> "Exit"]]

\* the environment takes a step and each run reacts to it
Both(e) ==
    /\ \E x \in RunIds : Accepts(runs[x], e)
    /\ runs' = [x \in RunIds |-> Step(runs[x], e)]
    /\ UNCHANGED evOp

Lg2Step(e) == evOp.prov = "git-libgit2" /\ Both(e)

SysStep(e) == evOp.prov = "git-system" /\ Both(e)

EvCredentials == \E allowed \in AllowedSets, agent \in BOOLEAN :
    Lg2Step([t |-> "credentials", allowed |-> allowed, agent |-> agent])
EvConnected == Lg2Step([t |-> "connected"])
EvAuthAbort == Lg2Step([t |-> "auth_abort"])
EvProgress == \E prefix \in {"remote: ", "pushing"} : Lg2Step([t |-> "progress", prefix |-> prefix])
EvNetworkError == Lg2Step([t |-> "network_error"])
EvTransferDone == \E ok \in BOOLEAN : Lg2Step([t |-> "transfer_done", ok |-> ok])
EvPushUpdateReference == \E ref \in PushRefs, status \in Statuses :
    Lg2Step([t |-> "push_update_reference", ref |-> ref, status |-> status])
EvPushReturn == Lg2Step([t |-> "push_return"])
\* run_git_streaming: a line on stdout or stderr, then the exit status
EvLine == SysStep([t |-> "line"])
EvExit == \E ok \in BOOLEAN : SysStep([t |-> "exit", ok |-> ok])

InitEvents ==
    /\ RepoIdle /\ RemoteIdle /\ LockIdle /\ SessIdle /\ StatusIdle /\ BranchIdle /\ LogIdle
    /\ PatchIdle /\ MoreIdle
    /\ evOp \in [prov : Providers, kind : OpKinds]
    /\ \E sink \in Sinks : runs = [x \in RunIds |-> NewRun(IF x = "A" THEN "absent" ELSE sink)]

EventsNext ==
    \/ EvCredentials
    \/ EvConnected
    \/ EvAuthAbort
    \/ EvProgress
    \/ EvNetworkError
    \/ EvTransferDone
    \/ EvPushUpdateReference
    \/ EvPushReturn
    \/ EvLine
    \/ EvExit

NextEvents ==
    EventsNext /\ UNCHANGED <<repoVars, remoteVars, lockVars, sessVars, statusVars, branchVars,
                              logVars, patchVars, moreVars>>

SpecEvents == InitEvents /\ [][NextEvents]_vars

(***************************************************************************)
(* Properties of SpecEvents                                                *)
(***************************************************************************)
Outcome(r) == [phase |-> r.phase, attempts |-> r.attempts, lastret |-> r.lastret,
               result |-> r.result, applied |-> r.applied]

\* C20: the run without on_event and the run with a discarding or any other
\* normally returning sink go through the same steps, return the same result
\* and leave the repository in the same state
C20_EventsAreAdvisory ==
    evOp.prov # "none" => Outcome(runs["A"]) = Outcome(runs["B"])

\* a push ended Ok in both runs; the recording sink of run B received events,
\* run A had none
C20_Witness ==
    /\ evOp.prov = "git-libgit2" /\ evOp.kind = "push"
    /\ runs["A"].sink = "absent" /\ runs["B"].sink = "collect"
    /\ runs["B"].phase = "done" /\ runs["B"].result.kind = "Ok" /\ runs["B"].applied
    /\ Len(runs["B"].events) >= 2
    /\ runs["A"].events = <<>>

(***************************************************************************)
(* Further properties of SpecRemote                                        *)
(***************************************************************************)
AuthFailed == phase = "done" /\ opResult.class \in {"Auth", "Agent"}

\* C21: an operation called with an event sink that fails during credential
\* negotiation has delivered at least one Auth event to the sink by the time
\* it returns its error
C21_AuthEventBeforeAuthFailure ==
    (on /\ AuthFailed) => \E i \in DOMAIN events : events[i].type = "Auth"

(***************************************************************************)
(* run_git_streaming (system provider).  The git process writes lines to   *)
(* its stdout and stderr pipes and exits; the calling thread forwards the  *)
(* stdout lines, a spawned thread forwards the stderr lines.               *)
(***************************************************************************)
OldIdle ==
    /\ RepoIdle /\ RemoteIdle /\ LockIdle
    /\ SessIdle /\ StatusIdle /\ BranchIdle /\ LogIdle /\ PatchIdle /\ EventsIdle

\* cb(VcsEvent::Progress { phase: "git", detail: line }) when on is Some
on_event_line(by) ==
    IF stream.on
    THEN Append(stream.events, [by |-> by, returned |-> stream.mainpc = "returned"])
    ELSE stream.events

\* the child writes a line to stdout
git_write_stdout ==
    /\ stream.mainpc # "none" /\ ~stream.exited /\ stream.out > 0
    /\ stream' = [stream EXCEPT !.out = @ - 1, !.pipeOut = @ + 1]

\* the child writes a line (progress, errors) to stderr
git_write_stderr ==
    /\ stream.mainpc # "none" /\ ~stream.exited /\ stream.err > 0
    /\ stream' = [stream EXCEPT !.err = @ - 1, !.pipeErr = @ + 1]

\* the child exits and its ends of the pipes close
git_exit(ok) ==
    /\ stream.mainpc # "none" /\ ~stream.exited /\ stream.out = 0 /\ stream.err = 0
    /\ stream' = [stream EXCEPT !.exited = TRUE, !.success = ok]

\* spawned thread: for line in BufReader::new(stderr).lines()
stderr_thread_line ==
    /\ stream.readerpc = "reading" /\ stream.pipeErr > 0
    /\ stream' = [stream EXCEPT !.pipeErr = @ - 1, !.events = on_event_line("stderr thread")]

stderr_thread_eof ==
    /\ stream.readerpc = "reading" /\ stream.pipeErr = 0 /\ stream.exited
    /\ stream' = [stream EXCEPT !.readerpc = "ended"]

\* calling thread: for line in BufReader::new(stdout).lines()
stdout_line ==
    /\ stream.mainpc = "stdout" /\ stream.pipeOut > 0
    /\ stream' = [stream EXCEPT !.pipeOut = @ - 1, !.events = on_event_line("caller")]

stdout_eof ==
    /\ stream.mainpc = "stdout" /\ stream.pipeOut = 0 /\ stream.exited
    /\ stream' = [stream EXCEPT !.mainpc = "wait"]

\* child.wait(), then Ok(()) or VcsError::Backend by the exit status
wait_and_return ==
    /\ stream.mainpc = "wait" /\ stream.exited
    /\ stream' = [stream EXCEPT
                    !.mainpc = "returned",
                    !.result = IF stream.success THEN "Ok" ELSE run_git_failed]

\* cmd.spawn(), child.stderr.take(), std::thread::spawn
run_git_streaming ==
    \E sink \in BOOLEAN, o \in 0..MaxLines, e \in 0..MaxLines :
        stream = [mainpc |-> "stdout", readerpc |-> "reading", on |-> sink,
                  out |-> o, err |-> e, pipeOut |-> 0, pipeErr |-> 0,
                  exited |-> FALSE, success |-> FALSE, events |-> <<>>, result |-> "none"]

InitStream == OldIdle /\ LateIdle /\ run_git_streaming

GitExit == \E ok \in BOOLEAN : git_exit(ok)

StreamNext ==
    \/ git_write_stdout
    \/ git_write_stderr
    \/ GitExit
    \/ stderr_thread_line
    \/ stderr_thread_eof
    \/ stdout_line
    \/ stdout_eof
    \/ wait_and_return

NextStream ==
    StreamNext /\ UNCHANGED <<repoVars, remoteVars, lockVars, sessVars, statusVars, branchVars,
                              logVars, patchVars, eventVars, lateVars>>

SpecStream == InitStream /\ [][NextStream]_vars

(***************************************************************************)
(* Properties of SpecStream                                                *)
(***************************************************************************)
\* C22: every on_event invocation of an operation is made by the thread that
\* executes the operation, and before the operation has returned to its caller
C22_EventsOnCallerBeforeReturn ==
    stream.mainpc # "none" =>
        \A i \in DOMAIN stream.events :
            /\ stream.events[i].by = "caller"
            /\ ~stream.events[i].returned


(***************************************************************************)
(* Further properties of Spec                                              *)
(***************************************************************************)
\* refs/heads/<name> exists
ExistingLocalBranch(name) == name \in Branches /\ refs[name] # NoOid

\* C23: for both providers, checkout_branch with a name that is not an
\* existing local branch returns the error kind NoSuchBranch, and HEAD and the
\* working tree are unchanged
C23_MissingBranchIsNoSuchBranch ==
    [][\A name \in Branches \cup {RemoteShort} :
          ( /\ ~ExistingLocalBranch(name)
            /\ (Lg2_checkout_branch(name) \/ Sys_checkout_branch(name)) )
          => /\ last'.res = "NoSuchBranch"
             /\ head' = head
             /\ worktree' = worktree]_vars


(***************************************************************************)
(* Further properties of SpecLock                                          *)
(***************************************************************************)
\* threads whose create_branch(name, true) has created refs/heads/<name> and
\* has not yet moved HEAD to it
BetweenCreateAndCheckout ==
    {t \in Threads : op[t] = "checkout_after_create" /\ pc[t] = "lock"}

\* C24: create_branch(name, checkout = true) is atomic on a shared handle: no
\* other operation runs between the creation of the branch ref and the move
\* of HEAD
C24_CreateCheckoutAtomic ==
    \A t \in BetweenCreateAndCheckout :
        \A u \in Threads \ {t} : pc[u] # "inside"


(***************************************************************************)
(* SpecSwitch: the session under concurrent set_current_repo calls only    *)
(***************************************************************************)
SwitchNext ==
    \/ SetCurrentRepo
    \/ SetCurrentRecents

NextSwitch ==
    SwitchNext /\ UNCHANGED <<repoVars, remoteVars, lockVars, statusVars, branchVars,
                              logVars, patchVars, eventVars, moreVars>>

SpecSwitch == InitSession /\ [][NextSwitch]_vars

\* every set_current_repo call has returned
AllReturned == \A t \in Callers : spc[t] = "idle"

\* C25: once all concurrent set_current_repo calls have returned, the first
\* entry of the recents list is the workdir of the handle current_repo() returns
C25_RecentsHeadIsCurrent ==
    (AllReturned /\ current_repo # NoHandle) =>
        /\ recents # <<>>
        /\ recents[1] = handles[current_repo].wd


(***************************************************************************)
(* SpecFf: Spec with a fast-forward whose HEAD update or checkout fails    *)
(* (HEAD.lock or index.lock held by another process, an I/O error)         *)
(***************************************************************************)
FfSteps == {"set_head", "checkout_head"}

\* ll::Git::fast_forward("origin/main") when the fetch and the analysis
\* succeed, reference.set_target moves the ref, and then `step` returns an
\* error that `?` propagates
Lg2_fast_forward_failing(step) ==
    LET pre == [Pre EXCEPT !.tip = remoteTip, !.fetched = TRUE] IN
    /\ provider = "git-libgit2"
    /\ step \in FfSteps
    /\ remoteTip # NoOid
    /\ merge_analysis(remoteTip) = "fast_forward"
    /\ tracking' = remoteTip
    /\ set_target(remoteTip)
    /\ last' = Call("pull_ff_only", "LibGit2", NoOid, pre)
    /\ UNCHANGED <<index, worktree>>
    /\ UNCHANGED <<provider, objs, localId, globalId, remoteTip, idSet, id0>>

PullFfOnlyFailing == \E step \in FfSteps : Lg2_fast_forward_failing(step)

FfNext ==
    \/ RepoNext
    \/ PullFfOnlyFailing

NextFf == FfNext /\ UNCHANGED <<remoteVars, lockVars, auxVars>>

SpecFf == Init /\ [][NextFf]_vars

\* C26: if pull_ff_only on the embedded provider returns an error, the
\* current branch ref and HEAD are the same as before the call
C26_FailedPullLeavesRefAndHead ==
    ( /\ provider = "git-libgit2"
      /\ last.op = "pull_ff_only"
      /\ last.res # "Ok" )
    => /\ refs = last.pre.refs
       /\ head = last.pre.head


(***************************************************************************)
(* SpecOpen: the backend registry, the startup reopen and the commands     *)
(* that open a repository and store it in the session                      *)
(***************************************************************************)
GIT_SYSTEM_ID == "git-system"
GIT_LIBGIT2_ID == "git-libgit2"

\* the distributed slice BACKENDS with both providers linked in: the ids of
\* GIT_SYS_DESC and GIT_LG2_DESC
BACKENDS == {GIT_SYSTEM_ID, GIT_LIBGIT2_ID}

None == "None"

\* get_backend: BACKENDS.iter().find(|b| b.id.as_ref() == id)
get_backend(id) == IF id \in BACKENDS THEN id ELSE None

GitBackend == {"System", "Libgit2"}

\* the descriptor of the provider a git.backend value stands for
descriptor_of(setting) == IF setting = "System" THEN GIT_SYSTEM_ID ELSE GIT_LIBGIT2_ID

\* try_reopen_last_repo: `match app_config.git.backend { .. }`
startup_backend(setting) == IF setting = "System" THEN GIT_SYSTEM_ID ELSE "libgit2"

MissingPath == "missing"                      \* a path that does not exist
OpenPaths == Workdirs \cup {MissingPath}
BackendIds == BACKENDS \cup {"libgit2"}       \* ids a caller may pass

Cmd(o, r, id) == [op |-> o, res |-> r, id |-> id, cur |-> current_repo, rec |-> recents]

\* a command that stores the handle whatever the checks said
stores_regardless(res) == TRUE

\* the early returns: set_current_repo is reached only when every check passed
reaches_set_current_repo(res) == res = "Ok"

RECURSIVE find_existing(_, _)
\* recents.into_iter().find(|p| p.exists())
find_existing(r, ex) ==
    IF r = <<>> THEN NoPath
    ELSE IF Head(r) \in ex THEN Head(r)
    ELSE find_existing(Tail(r), ex)

\* try_reopen_last_repo, run once by the setup hook before any command; `ex`
\* are the directories that exist, `ok`: the provider's open succeeds
try_reopen_last_repo(ex, ok) ==
    LET id   == startup_backend(appcfg.git_backend)
        path == find_existing(recents, ex)
        res  == IF ~appcfg.reopen_last_repos THEN "disabled"
                ELSE IF path = NoPath THEN "no_path"
                ELSE IF get_backend(id) = None THEN "unknown_backend"
                ELSE IF ~ok THEN "open_failed"
                ELSE "Ok"
        h    == CHOOSE x \in FreshHandles : \A y \in FreshHandles : x <= y
    IN
    /\ ~booted
    /\ booted' = TRUE
    /\ lastCmd' = Cmd("try_reopen_last_repo", res, id)
    /\ IF res = "Ok"
       THEN \* state.set_current_repo(existing_repo), no other thread yet
            /\ handles' = [handles EXCEPT ![h] = [st |-> "Open", wd |-> path, strong |-> 1]]
            /\ current_repo' = h
            /\ recents' = truncate(<<path>> \o retain(recents, path),
                                   max_items(recents_limit))
            /\ touched' = TRUE
            /\ UNCHANGED <<snap, spc, spath, recents_limit, slimit>>
       ELSE UNCHANGED sessVars
    /\ UNCHANGED appcfg

add_repo_result(path, b, ok) ==
    IF path = MissingPath THEN "Path does not exist"
    ELSE IF get_backend(b) = None THEN "Backend not found"
    ELSE IF ~ok THEN "Failed to open repo"
    ELSE "Ok"

\* add_repo / open_repo -> add_repo_internal, up to the swap of set_current_repo
add_repo_internal(t, path, b, ok) ==
    LET res == add_repo_result(path, b, ok) IN
    /\ booted
    /\ spc[t] = "idle"
    /\ lastCmd' = Cmd("add_repo", res, b)
    /\ IF reaches_set_current_repo(res)
       THEN set_current_repo(t, path)
       ELSE UNCHANGED sessVars
    /\ UNCHANGED <<appcfg, booted>>

set_backend_result(b, ok) ==
    IF get_backend(b) = None THEN "Unknown backend"
    ELSE IF current_repo # NoHandle /\ ~ok THEN "Failed to reopen repo"
    ELSE "Ok"

\* set_backend_cmd: the current repository, if any, is reopened with backend
\* b and stored, up to the swap of set_current_repo
set_backend_cmd_reopen(t, b, ok) ==
    LET res == set_backend_result(b, ok) IN
    /\ booted
    /\ spc[t] = "idle"
    /\ lastCmd' = Cmd("set_backend_cmd", res, b)
    /\ IF current_repo # NoHandle /\ reaches_set_current_repo(res)
       THEN set_current_repo(t, handles[current_repo].wd)
       ELSE UNCHANGED sessVars
    /\ UNCHANGED <<appcfg, booted>>

\* the rest of a set_current_repo in progress
open_recents(t) ==
    /\ set_current_recents(t)
    /\ lastCmd' = NoCmd
    /\ UNCHANGED <<appcfg, booted>>

InitOpen ==
    /\ RepoIdle /\ RemoteIdle /\ LockIdle /\ new_with_config
    /\ StatusIdle /\ BranchIdle /\ LogIdle /\ PatchIdle /\ EventsIdle /\ StreamIdle
    /\ CreateIdle /\ RwIdle
    /\ appcfg \in [git_backend : GitBackend, reopen_last_repos : BOOLEAN]
    /\ booted = FALSE
    /\ lastCmd = NoCmd

TryReopenLastRepo == \E ex \in SUBSET Workdirs, ok \in BOOLEAN : try_reopen_last_repo(ex, ok)
AddRepo == \E t \in Callers, path \in OpenPaths, b \in BackendIds, ok \in BOOLEAN :
               add_repo_internal(t, path, b, ok)
SetBackendCmd == \E t \in Callers, b \in BackendIds, ok \in BOOLEAN :
               set_backend_cmd_reopen(t, b, ok)
OpenRecents == \E t \in Callers : open_recents(t)

OpenNext ==
    \/ TryReopenLastRepo
    \/ AddRepo
    \/ SetBackendCmd
    \/ OpenRecents

NextOpen ==
    OpenNext /\ UNCHANGED <<repoVars, remoteVars, lockVars, statusVars, branchVars,
                            logVars, patchVars, eventVars, streamVars,
                            createVars, rwVars>>

SpecOpen == InitOpen /\ [][NextOpen]_vars

(***************************************************************************)
(* Properties of SpecOpen                                                  *)
(***************************************************************************)
OpenFailed ==
    /\ lastCmd.op \in {"add_repo", "set_backend_cmd"}
    /\ lastCmd.res # "Ok"

\* C27: when add_repo / open_repo or set_backend_cmd returns an error (path
\* missing, unknown backend id, the provider's open failed), current_repo()
\* and the recents list are what they were before the call
C27_FailedOpenLeavesSession ==
    OpenFailed =>
        /\ current_repo = lastCmd.cur
        /\ recents = lastCmd.rec

\* with a repository open and recorded, set_backend_cmd failed to reopen it
C27_Witness ==
    /\ lastCmd.op = "set_backend_cmd"
    /\ lastCmd.res = "Failed to reopen repo"
    /\ current_repo # NoHandle
    /\ recents # <<>>
    /\ recents[1] = handles[current_repo].wd

\* C28: for every value of git.backend, the id startup reopen passes to
\* get_backend is the id of the corresponding provider's descriptor, so with
\* the provider linked in the lookup succeeds and the repository is reopened
C28_StartupIdIsDescriptorId ==
    ( /\ lastCmd.op = "try_reopen_last_repo"
      /\ lastCmd.res \notin {"disabled", "no_path"} )
    => /\ lastCmd.id = descriptor_of(appcfg.git_backend)
       /\ lastCmd.res # "unknown_backend"
       /\ lastCmd.res = "Ok" => current_repo # NoHandle


(***************************************************************************)
(* SpecCreate: the git_create_branch command.  The repository is its       *)
(* local branches, the branch HEAD is on, and the branches a checkout      *)
(* cannot switch to because local changes are in the way.                  *)
(***************************************************************************)
BranchNames == {"main", "dev", "feature"}
NoFrom == "none"                               \* from: None
CheckoutArgs == {"true", "false", "none"}      \* checkout: Option<bool>

\* checkout.unwrap_or(false)
unwrap_or_false(c) == c = "true"

\* Vcs::checkout_branch of either provider: revparse_ext + checkout_tree +
\* set_head, or `git checkout <name>`
Vcs_checkout_branch(s, name) ==
    IF name \in s.branches /\ name \notin s.blocked
    THEN [ok |-> TRUE, s |-> [s EXCEPT !.head = name]]
    ELSE [ok |-> FALSE, s |-> s]

\* Vcs::create_branch of either provider: repo.branch(name, &head, false) or
\* `git branch <name>`, which fail on an existing name, then the checkout
Vcs_create_branch(s, name, checkout) ==
    IF name \in s.branches
    THEN [ok |-> FALSE, s |-> s]
    ELSE LET created == [s EXCEPT !.branches = @ \cup {name}]
         IN IF checkout THEN Vcs_checkout_branch(created, name)
            ELSE [ok |-> TRUE, s |-> created]

\* the command: the base branch, when given, is checked out first
git_create_branch(name, from, checkout) ==
    LET s0   == [provider |-> cb.provider, branches |-> cb.branches,
                 head |-> cb.head, blocked |-> cb.blocked]
        base == IF from = NoFrom THEN [ok |-> TRUE, s |-> s0]
                ELSE Vcs_checkout_branch(s0, from)
        made == IF base.ok THEN Vcs_create_branch(base.s, name, unwrap_or_false(checkout))
                ELSE base
        call == [op |-> "git_create_branch", name |-> name, from |-> from,
                 checkout |-> unwrap_or_false(checkout),
                 res |-> IF made.ok THEN "Ok" ELSE "Err", pre |-> cb.head]
    IN cb' = [provider |-> made.s.provider, branches |-> made.s.branches,
              head |-> made.s.head, blocked |-> made.s.blocked, last |-> call]

InitCreate ==
    /\ OldIdle /\ StreamIdle /\ OpenIdle /\ RwIdle
    /\ \E p \in Providers, bs \in SUBSET BranchNames, h \in BranchNames,
          bl \in SUBSET BranchNames :
          /\ h \in bs
          /\ bl \subseteq bs \ {h}
          /\ cb = [provider |-> p, branches |-> bs, head |-> h, blocked |-> bl,
                   last |-> [op |-> "none"]]

GitCreateBranch == \E name \in BranchNames, from \in BranchNames \cup {NoFrom},
                      checkout \in CheckoutArgs : git_create_branch(name, from, checkout)

CreateNext ==
    \/ GitCreateBranch

NextCreate ==
    CreateNext /\ UNCHANGED <<repoVars, remoteVars, lockVars, sessVars, statusVars,
                              branchVars, logVars, patchVars, eventVars, streamVars,
                              openVars, rwVars>>

SpecCreate == InitCreate /\ [][NextCreate]_vars

\* C29: git_create_branch with checkout false or absent leaves the current
\* branch unchanged, also when a base branch is given, and so does a call
\* that returns an error
C29_CreateKeepsCurrentBranch ==
    ( /\ cb.last.op = "git_create_branch"
      /\ (~cb.last.checkout \/ cb.last.res = "Err") )
    => cb.head = cb.last.pre


(***************************************************************************)
(* SpecRw: the three parking_lot RwLocks of AppState (config,              *)
(* current_repo, recents) under concurrent calls.  A call is the sequence  *)
(* of its lock operations and disk writes; a guard that is a temporary is  *)
(* released at the end of its statement.  A writer that finds its lock     *)
(* busy parks, and a parked writer keeps new readers out.                  *)
(***************************************************************************)
MaxCalls == 3                                  \* calls made in one run
RwThreads == {"t1", "t2", "t3"}
RwLocks == {"config", "current_repo", "recents"}
RwOps == {"set_current_repo", "clear_current_repo", "current_repo", "recents",
          "config", "set_config", "edit_config"}
NoThread == "none"

I(k, l) == [k |-> k, l |-> l]

\* a guard that is never dropped
guard_kept(k, l) == <<I(k, l)>>

\* `*self.x.write() = v` / `self.x.read().clone()`: the guard is a temporary,
\* dropped at the end of the statement
temporary(k, l) == <<I(k, l), I("release", l)>>

\* enforce_recents_limit_and_persist: the limit is read under a temporary
\* read guard, then the recents are truncated and saved under the write guard
enforce_prog ==
    temporary("read", "config")
    \o <<I("write", "recents"), I("save", "recents"), I("release", "recents")>>

Prog(o) ==
    CASE o = "current_repo"       -> temporary("read", "current_repo")
      [] o = "recents"            -> temporary("read", "recents")
      [] o = "config"             -> temporary("read", "config")
      [] o = "clear_current_repo" -> temporary("write", "current_repo")
      [] o = "set_current_repo"   ->
             temporary("write", "current_repo")
             \o <<I("write", "recents")>>
             \o temporary("read", "config")
             \o <<I("save", "recents"), I("release", "recents")>>
      [] o = "set_config"         ->
             <<I("save?", "config")>> \o temporary("write", "config") \o enforce_prog
      [] o = "edit_config"        ->
             temporary("read", "config") \o <<I("save?", "config")>>
             \o temporary("write", "config") \o enforce_prog

\* the instruction thread t is at
Instr(t) == Prog(rw.op[t])[rw.pc[t]]

At(t, k) == rw.pc[t] # 0 /\ Instr(t).k = k

\* t has executed its instruction
Advance(t) ==
    IF rw.pc[t] = Len(Prog(rw.op[t]))
    THEN [rw EXCEPT !.pc[t] = 0, !.op[t] = "none"]
    ELSE [rw EXCEPT !.pc[t] = @ + 1]

Busy(l) == rw.writer[l] # NoThread \/ rw.readers[l] # {}

ParkedWriters(l) == {u \in RwThreads : rw.parked[u] /\ At(u, "write") /\ Instr(u).l = l}

\* a thread enters one of the methods of AppState
rw_call(t, o) ==
    /\ rw.pc[t] = 0
    /\ rw.calls < MaxCalls
    /\ rw' = [rw EXCEPT !.pc[t] = 1, !.op[t] = o, !.calls = @ + 1]

\* RwLock::write finds the lock busy and parks
rw_park(t) ==
    /\ At(t, "write")
    /\ ~rw.parked[t]
    /\ Busy(Instr(t).l)
    /\ rw' = [rw EXCEPT !.parked[t] = TRUE]

\* RwLock::write: no reader and no writer holds the lock
rw_write(t) ==
    /\ At(t, "write")
    /\ ~Busy(Instr(t).l)
    /\ rw' = [Advance(t) EXCEPT !.writer[Instr(t).l] = t, !.parked[t] = FALSE]

\* RwLock::read: no writer holds the lock and none is parked on it
rw_read(t) ==
    /\ At(t, "read")
    /\ rw.writer[Instr(t).l] = NoThread
    /\ ParkedWriters(Instr(t).l) = {}
    /\ rw' = [Advance(t) EXCEPT !.readers[Instr(t).l] = @ \cup {t}]

\* the guard is dropped
rw_release(t) ==
    /\ At(t, "release")
    /\ rw' = [Advance(t) EXCEPT
                 !.writer[Instr(t).l] = IF @ = t THEN NoThread ELSE @,
                 !.readers[Instr(t).l] = @ \ {t}]

\* save_recents_to_disk: the disk write terminates; a failure is logged
rw_save_recents(t) ==
    /\ At(t, "save")
    /\ rw' = Advance(t)

\* next.save()?: the disk write terminates; a failure returns the error
rw_save_config(t, ok) ==
    /\ At(t, "save?")
    /\ rw' = IF ok THEN Advance(t) ELSE [rw EXCEPT !.pc[t] = 0, !.op[t] = "none"]

InitRw ==
    /\ OldIdle /\ StreamIdle /\ OpenIdle /\ CreateIdle
    /\ rw = [pc |-> [t \in RwThreads |-> 0],
             op |-> [t \in RwThreads |-> "none"],
             writer |-> [l \in RwLocks |-> NoThread],
             readers |-> [l \in RwLocks |-> {}],
             parked |-> [t \in RwThreads |-> FALSE],
             calls |-> 0]

RwOthers == <<repoVars, remoteVars, lockVars, sessVars, statusVars, branchVars,
              logVars, patchVars, eventVars, streamVars, openVars, createVars>>

RwCall == \E t \in RwThreads, o \in RwOps : rw_call(t, o)
RwPark == \E t \in RwThreads : rw_park(t)
RwWrite == \E t \in RwThreads : rw_write(t)
RwRead == \E t \in RwThreads : rw_read(t)
RwRelease == \E t \in RwThreads : rw_release(t)
RwSaveRecents == \E t \in RwThreads : rw_save_recents(t)
RwSaveConfig == \E t \in RwThreads, ok \in BOOLEAN : rw_save_config(t, ok)

RwNext ==
    \/ RwCall
    \/ RwPark
    \/ RwWrite
    \/ RwRead
    \/ RwRelease
    \/ RwSaveRecents
    \/ RwSaveConfig

NextRw == RwNext /\ UNCHANGED RwOthers

SpecRw == InitRw /\ [][NextRw]_vars

\* what thread t does once it is inside a call
ThreadStep(t) ==
    /\ \/ rw_park(t)
       \/ rw_write(t)
       \/ rw_read(t)
       \/ rw_release(t)
       \/ rw_save_recents(t)
       \/ \E ok \in BOOLEAN : rw_save_config(t, ok)
    /\ UNCHANGED RwOthers

\* every thread that can take a step is scheduled, and every disk write ends
SpecRwFair == SpecRw /\ \A t \in RwThreads : WF_vars(ThreadStep(t))

(***************************************************************************)
(* Properties of SpecRwFair                                                *)
(***************************************************************************)
\* C30: the session state is deadlock-free: under every interleaving of the
\* calls no thread waits forever on the locks and every call eventually
\* returns, that is, every thread is again and again outside any call
C30_EveryCallReturns ==
    \A t \in RwThreads : []<>(rw.pc[t] = 0)

\* a set_current_repo holds the recents write guard and is about to read the
\* config while a writer is parked on the config lock that a reader holds
C30_Witness ==
    \E t, u, v \in RwThreads :
        /\ rw.writer["recents"] = t
        /\ At(t, "read") /\ Instr(t).l = "config"
        /\ u \in ParkedWriters("config")
        /\ v \in rw.readers["config"]

====
